---- MODULE Spec2Model ----
(***************************************************************************)
(* mini_miloco: the authenticated-client guard (_ensure_client, the        *)
(* /auth/callback route) and the camera session / frame-cache subsystem    *)
(* of src/mini_miloco/server.py, as state machines.                        *)
(*                                                                         *)
(* The server is one asyncio event loop: code between two awaits runs      *)
(* atomically, so every action below is the code from one suspension       *)
(* point to the next.  An awaited call into the IoT client library is a    *)
(* suspension point; acquiring a free asyncio.Lock is not.                 *)
(***************************************************************************)
EXTENDS Integers, Sequences, FiniteSets, TLC

VARIABLES
    \* ---- client guard (run_server locals, server.py 141-161) ----
    token_file,         \* content of token_path; grant = 0: the file does not exist
    payload,            \* in-memory token payload; grant = 0: None
    client,             \* the MIoTClient; id = 0: None
    miot_devices_mcp,   \* device tool adapter; client = 0: None
    miot_scenes_mcp,    \* scene tool adapter; client = 0: None
    auth_lock,          \* call holding auth_lock, 0: unlocked
    auth_waiters,       \* calls queued on auth_lock, in arrival order
    now,                \* int(time.time())
    tk,                 \* the tool calls, one record per call
    cb,                 \* the /auth/callback request in flight
    hist,               \* history: counters of what has happened so far
    \* ---- camera sessions and frame caches ----
    camera_instances,   \* did -> session record id, 0: absent
    sessions,           \* the session records ("state" dicts), by record id
    conns,              \* the library's camera instances, by record id
    camera_cache,       \* (did, channel) -> buffer id, 0: absent
    bufs,               \* the cache dicts with their events, by buffer id
    ctk,                \* the camera tool calls in flight
    chist               \* history of the camera subsystem

authVars == <<token_file, payload, client, miot_devices_mcp, miot_scenes_mcp,
              auth_lock, auth_waiters, now, tk, cb, hist>>
camVars == <<camera_instances, sessions, conns, camera_cache, bufs, ctk, chist>>
vars == <<authVars, camVars>>

-----------------------------------------------------------------------------
(* Bounds of the model                                                     *)

NumCalls == 3
MaxCallbacks == 1
MaxTime == 1
RefreshWindow == 2

\* The tool calls of a run: each is made once, in the order of their numbers.
Calls == 1..NumCalls

\* Lifetimes the token issuer may grant: one that is inside the refresh
\* window the moment it is issued, one that enters it one tick later.
Lifetimes == {RefreshWindow - 1, RefreshWindow}

-----------------------------------------------------------------------------
(* Token payload and client guard                                          *)

\* oauth_info as the guard reads it: which authorization (grant) it stems
\* from, and expires_ts (int_exp: expires_ts is an int).
OAuth(g, isint, e) == [grant |-> g, int_exp |-> isint, expires_ts |-> e]

NoPayload == OAuth(0, FALSE, 0)
NoClient == [id |-> 0, grant |-> 0, inited |-> FALSE]
NoMcp == [client |-> 0, inited |-> FALSE]

\* token_path.exists()
TokenExists(f) == f.grant # 0

\* _load_token_file: the payload is the file's content
LoadTokenFile(f) == f

\* _needs_refresh(oauth_info, refresh_window_seconds)
NeedsRefresh(info, t) ==
    IF ~info.int_exp THEN FALSE
    ELSE (info.expires_ts - t) < RefreshWindow

\* Mutant: the guard constructs a client on every call.
ClientIsNone_Always(c) == TRUE

\* "if client is None"
ClientIsNone(c) == c.id = 0

\* Mutant: _ensure_client without its lock.
AuthLockFree_NoLock == TRUE

\* async with auth_lock: the lock is taken at once iff nobody holds it and
\* nobody is queued for it
AuthLockFree == auth_lock = 0 /\ auth_waiters = <<>>

ToolOps == {"list_cameras", "get_devices", "get_manual_scenes"}

\* A call not made yet.  pc: where the call stands; op: the tool; res: how it
\* ended; got: the client _ensure_client returned; rt: the refresh token sent.
NewCall == [pc |-> "new", op |-> "none", res |-> "none", got |-> 0, rt |-> 0]

\* What the tool call makes of a client handed back by _ensure_client:
\* _ensure_devices_mcp and _ensure_scenes_mcp assert their adapter.
ToolResult(op, dev, scn) ==
    IF op = "get_devices" /\ dev.client = 0 THEN "AssertionError"
    ELSE IF op = "get_manual_scenes" /\ scn.client = 0 THEN "AssertionError"
    ELSE "ok"

Bump(h, f) == [h EXCEPT ![f] = @ + 1]

\* The client guard's state as one value: the code between two awaits is a
\* sequence of assignments, written below as functions from state to state.
AuthState ==
    [token_file |-> token_file, payload |-> payload, client |-> client,
     miot_devices_mcp |-> miot_devices_mcp, miot_scenes_mcp |-> miot_scenes_mcp,
     auth_lock |-> auth_lock, auth_waiters |-> auth_waiters, tk |-> tk,
     hist |-> hist]

SetAuth(s) ==
    /\ token_file' = s.token_file
    /\ payload' = s.payload
    /\ client' = s.client
    /\ miot_devices_mcp' = s.miot_devices_mcp
    /\ miot_scenes_mcp' = s.miot_scenes_mcp
    /\ auth_lock' = s.auth_lock
    /\ auth_waiters' = s.auth_waiters
    /\ tk' = s.tk
    /\ hist' = s.hist

\* Call t ends with result r (a raise, or a return of client c): the lock is
\* released on the way out of "async with auth_lock".
Finish(s, t, r, c) ==
    [s EXCEPT !.tk[t] = [NewCall EXCEPT !.pc = "done", !.res = r, !.got = c],
              !.auth_lock = IF s.auth_waiters = <<>> THEN 0 ELSE Head(s.auth_waiters),
              !.auth_waiters = IF s.auth_waiters = <<>> THEN <<>> ELSE Tail(s.auth_waiters)]

\* server.py 212-216 and 230: refresh if the token is inside the window (up
\* to the await of refresh_access_token_async), return the client otherwise.
RefreshCheck(s, t) ==
    IF NeedsRefresh(s.payload, now)
    THEN [s EXCEPT !.tk[t].pc = "ec_refresh", !.tk[t].rt = s.payload.grant,
                   !.hist = Bump(s.hist, "nRefresh")]
    ELSE Finish(s, t, ToolResult(s.tk[t].op, s.miot_devices_mcp, s.miot_scenes_mcp),
                s.client.id)

\* server.py 173-189: the body of _ensure_client from the moment the lock is
\* held to its first await.
EnterGuard(s, t) ==
    IF ~TokenExists(s.token_file)
    THEN Finish([s EXCEPT !.payload = NoPayload], t, "AuthRequired", 0)
    ELSE LET s1 == IF s.payload = NoPayload
                   THEN [s EXCEPT !.payload = LoadTokenFile(s.token_file)]
                   ELSE s
         IN IF ClientIsNone(s1.client)
            THEN [s1 EXCEPT !.client = [id |-> s1.hist.nConstruct + 1,
                                        grant |-> s1.payload.grant,
                                        inited |-> FALSE],
                            !.hist = Bump(s1.hist, "nConstruct"),
                            !.tk[t].pc = "ec_init"]
            ELSE RefreshCheck(s1, t)

\* A tool is called and enters _ensure_client (server.py 170-172): it goes
\* on at once if auth_lock is free and queues for it otherwise.
ToolCall(t, op) ==
    /\ tk[t].pc = "new"
    /\ \A u \in Calls : u < t => tk[u].pc # "new"
    /\ LET s0 == [AuthState EXCEPT !.tk[t].op = op]
       IN IF AuthLockFree
          THEN SetAuth(EnterGuard([s0 EXCEPT !.auth_lock = t], t))
          ELSE SetAuth([s0 EXCEPT !.tk[t].pc = "ec_lock",
                                  !.auth_waiters = Append(auth_waiters, t)])
    /\ UNCHANGED <<now, cb, camVars>>

\* A queued call is handed auth_lock and enters the guarded body.
GuardLocked(t) ==
    /\ tk[t].pc = "ec_lock"
    /\ auth_lock = t
    /\ SetAuth(EnterGuard(AuthState, t))
    /\ UNCHANGED <<now, cb, camVars>>

\* server.py 189-209: client.init_async() returns; the two adapters are
\* constructed and the device adapter's init_async is awaited.
ClientInitDone(t) ==
    /\ tk[t].pc = "ec_init"
    /\ SetAuth([AuthState EXCEPT !.client.inited = TRUE,
                                 !.miot_devices_mcp = [client |-> client.id, inited |-> FALSE],
                                 !.miot_scenes_mcp = [client |-> client.id, inited |-> FALSE],
                                 !.tk[t].pc = "ec_dev_init"])
    /\ UNCHANGED <<now, cb, camVars>>

\* server.py 209-210: miot_devices_mcp.init_async() returns.
DevicesInitDone(t) ==
    /\ tk[t].pc = "ec_dev_init"
    /\ SetAuth([AuthState EXCEPT !.miot_devices_mcp.inited = TRUE,
                                 !.tk[t].pc = "ec_scn_init"])
    /\ UNCHANGED <<now, cb, camVars>>

\* server.py 210-216, 230: miot_scenes_mcp.init_async() returns, then the
\* refresh check.
ScenesInitDone(t) ==
    /\ tk[t].pc = "ec_scn_init"
    /\ SetAuth(RefreshCheck([AuthState EXCEPT !.miot_scenes_mcp.inited = TRUE], t))
    /\ UNCHANGED <<now, cb, camVars>>

\* server.py 189, 209, 210: one of the three init_async calls raises; the
\* exception leaves _ensure_client, whatever was assigned so far stays.
InitFails(t) ==
    /\ tk[t].pc \in {"ec_init", "ec_dev_init", "ec_scn_init"}
    /\ SetAuth(Finish([AuthState EXCEPT !.hist.initFailed = TRUE],
                      t, "InitError", 0))
    /\ UNCHANGED <<now, cb, camVars>>

\* The payload after a successful refresh (server.py 217-218): the payload
\* dict now bound to the name gets the new oauth_info.
RefreshedPayload(p, rt, life) == OAuth(rt, TRUE, now + life)

\* server.py 217-219, 230: refresh_access_token_async returns new_info; it
\* is stored in the payload, the payload is written to the token file and
\* the client is returned.
RefreshDone(t, life) ==
    /\ tk[t].pc = "ec_refresh"
    /\ LET p == RefreshedPayload(payload, tk[t].rt, life)
           s1 == [AuthState EXCEPT !.payload = p, !.token_file = p,
                      !.hist.calm = hist.calm /\ ~NeedsRefresh(p, now)]
       IN SetAuth(Finish(s1, t, ToolResult(tk[t].op, miot_devices_mcp, miot_scenes_mcp),
                         client.id))
    /\ UNCHANGED <<now, cb, camVars>>

\* What the except clause makes of the payload (server.py 222).
PayloadOnRefreshFailure(p) == NoPayload

\* server.py 220-224: the refresh raises; the payload is dropped and
\* client.deinit_async() is awaited.
RefreshFails(t) ==
    /\ tk[t].pc = "ec_refresh"
    /\ SetAuth([AuthState EXCEPT !.payload = PayloadOnRefreshFailure(payload),
                                 !.tk[t].pc = "ec_deinit",
                                 !.hist = [hist EXCEPT !.refreshFailed = TRUE, !.armed = TRUE,
                                                       !.calm = FALSE]])
    /\ UNCHANGED <<now, cb, camVars>>

\* Mutant: the except clause forgets to drop the client.
ClientAfterDeinit_Kept(c) == c

\* What the except clause leaves of the client once it is de-initialized
\* (server.py 225).
ClientAfterDeinit(c) == NoClient

\* server.py 224-228: deinit_async returns; client and adapters are set to
\* None and the call fails with the authorization-required ToolError.
DeinitDone(t) ==
    /\ tk[t].pc = "ec_deinit"
    /\ SetAuth(Finish([AuthState EXCEPT !.client = ClientAfterDeinit(client),
                                        !.miot_devices_mcp = NoMcp,
                                        !.miot_scenes_mcp = NoMcp],
                      t, "AuthRequired", 0))
    /\ UNCHANGED <<now, cb, camVars>>

\* /auth/callback (server.py 859-881): the request is accepted and the code
\* exchange get_access_token_async is awaited.
CallbackBegin ==
    /\ cb = "idle"
    /\ hist.nCallbacks < MaxCallbacks
    /\ cb' = "exchange"
    /\ hist' = Bump(hist, "nCallbacks")
    /\ UNCHANGED <<token_file, payload, client, miot_devices_mcp, miot_scenes_mcp,
                   auth_lock, auth_waiters, now, tk, camVars>>

\* server.py 881-896: the exchange returns the oauth_info of a new
\* authorization; payload is rebound to a new dict and written to the file.
CallbackDone(life) ==
    /\ cb = "exchange"
    /\ cb' = "idle"
    /\ payload' = OAuth(hist.nCallbacks + 1, TRUE, now + life)
    /\ token_file' = payload'
    /\ hist' = [hist EXCEPT !.armed = FALSE, !.calm = FALSE]
    /\ UNCHANGED <<client, miot_devices_mcp, miot_scenes_mcp, auth_lock,
                   auth_waiters, now, tk, camVars>>

\* server.py 881, 897-898: the exchange raises; nothing is stored.
CallbackFails ==
    /\ cb = "exchange"
    /\ cb' = "idle"
    /\ UNCHANGED <<token_file, payload, client, miot_devices_mcp, miot_scenes_mcp,
                   auth_lock, auth_waiters, now, tk, hist, camVars>>

\* The wall clock advances (time.time(), server.py 75).
Tick ==
    /\ now < MaxTime
    /\ now' = now + 1
    /\ hist' = [hist EXCEPT !.calm = FALSE]
    /\ UNCHANGED <<token_file, payload, client, miot_devices_mcp, miot_scenes_mcp,
                   auth_lock, auth_waiters, tk, cb, camVars>>

\* The token file is removed from outside the server; _ensure_client tests
\* token_path.exists() on every call (server.py 173).
TokenFileRemoved ==
    /\ TokenExists(token_file)
    /\ token_file' = NoPayload
    /\ UNCHANGED <<payload, client, miot_devices_mcp, miot_scenes_mcp,
                   auth_lock, auth_waiters, now, tk, cb, hist, camVars>>

\* History kept for the properties: how many constructions of
\* MIoTClient (each followed at once by its init_async) and refresh calls
\* there have been; whether an init or a refresh has ever failed; armed: a
\* refresh has failed and no /auth/callback has completed since; calm: the
\* clock has not advanced, no refresh has failed or returned a token inside
\* the window, and no /auth/callback has completed.
NoHist == [nConstruct |-> 0, nRefresh |-> 0, nCallbacks |-> 0,
           initFailed |-> FALSE, refreshFailed |-> FALSE, armed |-> FALSE,
           calm |-> TRUE]

\* Token files the server may find when it starts: none, one whose
\* expires_ts is no int, one inside and one outside the refresh window.
InitialTokenFiles ==
    {NoPayload, OAuth(1, FALSE, 0)} \cup {OAuth(1, TRUE, l) : l \in Lifetimes}

\* The camera subsystem before any camera tool has run (server.py 159-161).
CamIdle ==
    /\ camera_instances = <<>>
    /\ sessions = <<>>
    /\ conns = <<>>
    /\ camera_cache = <<>>
    /\ bufs = <<>>
    /\ ctk = <<>>
    /\ chist = [nFrames |-> 0]

\* run_server, server.py 141-161: the payload is loaded if the file exists.
InitAuth ==
    /\ token_file \in InitialTokenFiles
    /\ payload = IF TokenExists(token_file) THEN LoadTokenFile(token_file) ELSE NoPayload
    /\ client = NoClient
    /\ miot_devices_mcp = NoMcp
    /\ miot_scenes_mcp = NoMcp
    /\ auth_lock = 0
    /\ auth_waiters = <<>>
    /\ now = 0
    /\ tk = [t \in Calls |-> NewCall]
    /\ cb = "idle"
    /\ hist = NoHist
    /\ CamIdle

NextAuth ==
    \/ \E t \in Calls, op \in ToolOps : ToolCall(t, op)
    \/ \E t \in Calls : GuardLocked(t)
    \/ \E t \in Calls : ClientInitDone(t)
    \/ \E t \in Calls : DevicesInitDone(t)
    \/ \E t \in Calls : ScenesInitDone(t)
    \/ \E t \in Calls : InitFails(t)
    \/ \E t \in Calls, life \in Lifetimes : RefreshDone(t, life)
    \/ \E t \in Calls : RefreshFails(t)
    \/ \E t \in Calls : DeinitDone(t)
    \/ CallbackBegin
    \/ \E life \in Lifetimes : CallbackDone(life)
    \/ CallbackFails
    \/ Tick
    \/ TokenFileRemoved

SpecAuth == InitAuth /\ [][NextAuth]_vars

-----------------------------------------------------------------------------
(* Properties of the client guard                                          *)

\* The program counters inside "async with auth_lock" that sit at an await.
GuardedPcs == {"ec_init", "ec_dev_init", "ec_scn_init", "ec_refresh", "ec_deinit"}

\* _ensure_client has handed a client to call t.
Returned(t) == tk[t].pc = "done" /\ tk[t].got # 0

\* C6: as long as no refresh has failed, MIoTClient is constructed (and its
\* init_async called) at most once however many callers overlap, and every
\* caller that is handed a client is handed that one client; unless an init
\* call raised, the client and both adapters are initialized by then.
C6_SingleConstruction ==
    ~hist.refreshFailed =>
        /\ hist.nConstruct <= 1
        /\ \A t \in Calls : Returned(t) =>
              /\ hist.nConstruct = 1
              /\ tk[t].got = 1
              /\ client.id = 1
              /\ ~hist.initFailed =>
                    /\ client.inited
                    /\ miot_devices_mcp = [client |-> 1, inited |-> TRUE]
                    /\ miot_scenes_mcp = [client |-> 1, inited |-> TRUE]

\* Every call was handed the client; there was one construction.
C6_Witness ==
    /\ hist.nConstruct = 1
    /\ ~hist.refreshFailed /\ ~hist.initFailed
    /\ \A t \in Calls : Returned(t) /\ tk[t].got = 1

\* C7: the step in which the refresh fails drops the payload and leaves the
\* token file as it is; the step that ends the failed call (after the
\* client's deinit_async) leaves client and both adapters None, leaves the
\* token file as it is and fails the call with AuthRequired.
C7_RefreshFailureDiscards ==
    [][\A t \in Calls :
          /\ (tk[t].pc = "ec_refresh" /\ tk'[t].pc = "ec_deinit") =>
                (payload' = NoPayload /\ token_file' = token_file)
          /\ (tk[t].pc = "ec_deinit" /\ tk'[t].pc # "ec_deinit") =>
                /\ client' = NoClient
                /\ miot_devices_mcp' = NoMcp
                /\ miot_scenes_mcp' = NoMcp
                /\ token_file' = token_file
                /\ tk'[t].pc = "done"
                /\ tk'[t].res = "AuthRequired"
                /\ tk'[t].got = 0]_vars

\* A call has just failed on a refresh failure: nothing is left in memory,
\* the token file is still there.
C7_Witness ==
    /\ hist.refreshFailed
    /\ \E t \in Calls : tk[t].pc = "done" /\ tk[t].res = "AuthRequired"
    /\ client = NoClient /\ payload = NoPayload
    /\ miot_devices_mcp = NoMcp /\ miot_scenes_mcp = NoMcp
    /\ TokenExists(token_file)
    /\ hist.nCallbacks = 0

\* C8: from a refresh failure until an /auth/callback completes (armed), no
\* client is constructed and no call is handed a client (stated for the
\* histories in which no init_async call has raised).
C8_AuthRequiredUntilReauth ==
    [][(hist.armed /\ hist'.armed /\ ~hist'.initFailed) =>
          /\ hist'.nConstruct = hist.nConstruct
          /\ \A t \in Calls : ~(tk[t].pc # "done" /\ Returned(t)')]_vars

\* C9: at most one caller at a time is inside the guarded construct/refresh
\* sequence; and while nothing has made a second refresh necessary (calm),
\* refresh_access_token_async has been called at most once.
C9_GuardSerialized ==
    /\ Cardinality({t \in Calls : tk[t].pc \in GuardedPcs}) <= 1
    /\ \A t \in Calls : tk[t].pc \in GuardedPcs => auth_lock = t
    /\ hist.calm => hist.nRefresh <= 1

\* The token was inside the window; there was one refresh, which returned a
\* token outside the window; every call was handed the client.
C9_Witness ==
    /\ hist.calm
    /\ hist.nRefresh = 1
    /\ \A t \in Calls : Returned(t) /\ tk[t].got = client.id
    /\ ~NeedsRefresh(payload, now)

-----------------------------------------------------------------------------
(* Camera sessions and frame caches                                        *)

NumCamCalls == 2
MaxFrames == 2

\* The camera tool calls of a run: each is made once, in the order of their
\* numbers.
CamCalls == 1..NumCamCalls

\* get_cameras_async(): one camera, did 1, reporting ChannelCount channels.
Cameras == {1}
ChannelCount == 2
Channels == 0..(ChannelCount - 1)

\* Arguments the tools are called with: an unknown did, channels on both
\* sides of [0, channel_count), no pin code (0) or one of two pin codes.
DidInputs == Cameras \cup {0}
ChannelInputs == -1..ChannelCount
PinInputs == {0}
BufferSizeInputs == 0..1
DurationInputs == 0..2
FpsInputs == 0..1

\* buffer_size of the cache the server starts for every camera when it boots
DefaultBufferSize == 30

\* A session record: the "state" dict of _get_or_create_camera_instance
\* (server.py 248-255).  Its "instance" is conns[] at the same index; lock
\* is the call holding state["lock"], lockq the calls queued for it.
NewSession(did, pin) ==
    [did |-> did, started |-> FALSE, pin_code |-> pin, channels |-> {},
     reg_ids |-> [ch \in Channels |-> 0], lock |-> 0, lockq |-> <<>>]

\* A camera instance of the library as the server can observe it: whether
\* it is running (started and not stopped), the decode callbacks registered
\* on it, how often start_async was called on it since it last stopped.
NewConn == [running |-> FALSE, regs |-> {}, starts |-> 0]

\* A registered decode callback: its registration id, its channel, which
\* closure it is (the _on_jpg of a snapshot, of a clip or of a cache) and
\* the call whose locals the closure holds.
Reg(id, ch, kind, owner) == [id |-> id, ch |-> ch, kind |-> kind, owner |-> owner]

\* A cache dict (server.py 579-583): frames is the deque, cap its maxlen,
\* updated_at -1 is None.  The asyncio.Event of the key lives and dies with
\* it.
NewBuffer(cap) == [frames |-> <<>>, cap |-> cap, updated_at |-> -1]

\* A cache dict nothing refers to any more.
DeadBuffer == [frames |-> <<>>, cap |-> 0, updated_at |-> -1]

\* A camera tool call not made yet.  pc: where the call stands; op, did, ch,
\* pin, arg: the tool and its arguments (arg: buffer_size or frame_count);
\* sin: start_if_needed; lk: the call holds state["lock"]; st: its session
\* record; reg: its reg_id; buf: the cache dict it refers to; woken: its
\* event.wait() has returned; futs: its futures (0 pending, -1 cancelled,
\* else the frame); idx: the future awaited; nfiles: frame files written;
\* dir: the scratch directory; err: the exception under way in the finally
\* clause; res: how the call ended; frame: the frame it returned; age:
\* max_age; at: the "now" of get_cached_camera_snapshot; seen: how many
\* frames had been delivered when the call was made; out: the frames
\* get_cached_camera_frames returned, or the per-camera entries of
\* start_all_camera_cache; todo: the (did, channel) pairs its loops have
\* still to visit; auto: the call is the _auto_start_all_cameras task;
\* tries: its attempts that a library call ended; slept: the seconds of
\* the asyncio.sleep it is in.
NewCamCall ==
    [pc |-> "new", op |-> "none", did |-> 0, ch |-> 0, pin |-> 0, arg |-> 0,
     sin |-> FALSE, lk |-> FALSE, st |-> 0, reg |-> 0, buf |-> 0,
     woken |-> FALSE, futs |-> <<>>, idx |-> 0, nfiles |-> 0, dir |-> "none",
     err |-> "none", res |-> "none", frame |-> 0, age |-> 0, at |-> 0,
     seen |-> 0, out |-> <<>>, todo |-> <<>>, auto |-> FALSE, tries |-> 0,
     slept |-> 0]

\* The camera subsystem's state as one value (see AuthState).
CamState ==
    [camera_instances |-> camera_instances, sessions |-> sessions,
     conns |-> conns, camera_cache |-> camera_cache, bufs |-> bufs,
     ctk |-> ctk, chist |-> chist]

\* Mutant: the tools look for the key in a dict whose entries are
\* never removed.
InCache_Stale(s, did, ch) == <<did, ch>> \in DOMAIN s.camera_cache

\* "cache_key in camera_cache"
InCache(s, did, ch) ==
    /\ <<did, ch>> \in DOMAIN s.camera_cache
    /\ s.camera_cache[<<did, ch>>] # 0

\* Cache dicts that are neither in camera_cache nor held by a waiting call
\* are garbage.
Collect(s) ==
    LET live == {s.camera_cache[k] : k \in DOMAIN s.camera_cache}
                  \cup {s.ctk[c].buf : c \in CamCalls}
    IN [s EXCEPT !.bufs = [b \in DOMAIN s.bufs |->
                              IF b \in live THEN s.bufs[b] ELSE DeadBuffer]]

\* The next state is s0 after garbage collection (s0 and its collected form
\* are each bound once, as values).
SetCam(s0) ==
    \E s1 \in {s0} : \E s \in {Collect(s1)} :
       /\ camera_instances' = s.camera_instances
       /\ sessions' = s.sessions
       /\ conns' = s.conns
       /\ camera_cache' = s.camera_cache
       /\ bufs' = s.bufs
       /\ ctk' = s.ctk
       /\ chist' = s.chist

\* Call c raises ToolError r (or OSError): its locals are gone.
Fail(s, c, r) ==
    [s EXCEPT !.ctk[c] = [NewCamCall EXCEPT !.pc = "done", !.op = s.ctk[c].op,
                              !.res = r, !.nfiles = s.ctk[c].nfiles,
                              !.dir = s.ctk[c].dir, !.auto = s.ctk[c].auto]]

\* Call c returns result r: its locals are gone, what it reported stays.
Done(s, c, r) ==
    [s EXCEPT !.ctk[c] = [NewCamCall EXCEPT !.pc = "done", !.op = s.ctk[c].op,
                              !.did = s.ctk[c].did, !.ch = s.ctk[c].ch,
                              !.res = r, !.frame = s.ctk[c].frame,
                              !.nfiles = s.ctk[c].nfiles, !.dir = s.ctk[c].dir]]

\* frame_count = max(1, int(duration * fps)), server.py 401
FrameCount(duration, fps) == IF duration * fps < 1 THEN 1 ELSE duration * fps

\* Leaving "async with state['lock']": the lock passes to the first waiter.
ReleaseLock(s, c) ==
    LET r == s.ctk[c].st
        q == s.sessions[r].lockq
    IN [s EXCEPT !.sessions[r].lock = IF q = <<>> THEN 0 ELSE Head(q),
                 !.sessions[r].lockq = IF q = <<>> THEN <<>> ELSE Tail(q),
                 !.ctk[c].lk = FALSE]

\* start_all_camera_cache returns its results (server.py 655); the
\* _auto_start_all_cameras task returns with it (server.py 790-791).
BatchEnd(s, c) ==
    [s EXCEPT !.ctk[c] = [NewCamCall EXCEPT !.pc = "done", !.op = s.ctk[c].op,
                              !.res = "started_all", !.out = s.ctk[c].out,
                              !.auto = s.ctk[c].auto, !.tries = s.ctk[c].tries,
                              !.slept = s.ctk[c].slept]]

\* server.py 643-655: the entry of the (did, channel) at hand is appended
\* to per_camera and the loops go on: the next _start_camera_cache runs up
\* to the await in _get_camera_info, or the results are returned.
BatchNext(s, c, status) ==
    LET k == s.ctk[c]
        out == Append(k.out, [did |-> k.did, ch |-> k.ch, status |-> status])
    IN IF k.todo = <<>>
       THEN BatchEnd([s EXCEPT !.ctk[c].out = out], c)
       ELSE [s EXCEPT !.ctk[c] = [k EXCEPT !.out = out,
                                           !.did = Head(k.todo)[1],
                                           !.ch = Head(k.todo)[2],
                                           !.todo = Tail(k.todo),
                                           !.pc = "info_wait",
                                           !.st = 0, !.reg = 0]]

\* _start_camera_cache raises ToolError r: start_camera_cache fails with
\* it, start_all_camera_cache records it for the camera (server.py 652-653).
Raise(s, c, r) ==
    IF s.ctk[c].op = "start_all_camera_cache" THEN BatchNext(s, c, r)
    ELSE Fail(s, c, r)

\* _start_camera_cache returns "started" (server.py 602-606).
CacheStarted(s, c) ==
    IF s.ctk[c].op = "start_all_camera_cache" THEN BatchNext(s, c, "started")
    ELSE Done(s, c, "started")

\* The seconds _auto_start_all_cameras sleeps between attempts.
SleepSeconds == 5

\* server.py 792-795: an attempt of _auto_start_all_cameras has raised; the
\* task calls asyncio.sleep(5).  n: 1 if a library call raised, 0 if it was
\* the ToolError of the client guard.
AutoSleep(s, c, n) ==
    [s EXCEPT !.ctk[c] = [NewCamCall EXCEPT !.pc = "sleep", !.op = s.ctk[c].op,
                              !.auto = TRUE, !.tries = s.ctk[c].tries + n,
                              !.slept = SleepSeconds]]

\* Mutant: _auto_start_all_cameras without its "except Exception" clause.
Crash_Uncaught(s, c, r) ==
    Fail(IF s.ctk[c].lk THEN ReleaseLock(s, c) ELSE s, c, r)

\* An exception r that is no ToolError leaves the call: a lock held in
\* "async with" is released on the way; no except clause of the tools
\* catches it, the one of _auto_start_all_cameras does (server.py 794).
Crash(s, c, r) ==
    LET s1 == IF s.ctk[c].lk THEN ReleaseLock(s, c) ELSE s
    IN IF s1.ctk[c].auto THEN AutoSleep(s1, c, 1) ELSE Fail(s1, c, r)

\* instance.start_async(...) is called and awaited.
CallStart(s, c) ==
    [s EXCEPT !.ctk[c].pc = "start_wait",
              !.conns[s.ctk[c].st].starts = @ + 1]

\* instance.register_decode_jpg_async(callback=_on_jpg, channel=channel,
\* multi_reg=True) is called and awaited: the library adds the callback and
\* will return its registration id (the least id not in use on the instance).
CallRegister(s, c, kind) ==
    LET r == s.ctk[c].st
        used == {g.id : g \in s.conns[r].regs}
        id == CHOOSE i \in 1..(Cardinality(used) + 1) :
                 i \notin used /\ \A j \in 1..(i - 1) : j \in used
    IN [s EXCEPT !.conns[r].regs = @ \cup {Reg(id, s.ctk[c].ch, kind, c)},
                 !.ctk[c].reg = id,
                 !.ctk[c].pc = "reg_wait"]

\* instance.unregister_decode_jpg_async(channel=channel, reg_id=reg_id) is
\* called and awaited.
CallUnregister(s, c) == [s EXCEPT !.ctk[c].pc = "unreg_wait"]

\* instance.stop_async() is called and awaited.
CallStop(s, c) == [s EXCEPT !.ctk[c].pc = "stop_wait"]

\* get_camera_snapshot, server.py 340-365 after the finally clause: the
\* timeout is raised as a ToolError, else the frame is returned.
SnapshotEnd(s, c) ==
    IF s.ctk[c].err = "timeout"
    THEN Fail(s, c, "SnapshotTimeout")
    ELSE Done([s EXCEPT !.ctk[c].frame = s.ctk[c].futs[1]], c, "ok")

\* record_camera_clip, server.py 419-464 after the finally clause.  enc is
\* what the encoder does: "missing", "failed" or "ok".
ClipEnd(s, c, enc) ==
    IF s.ctk[c].err = "timeout" THEN Fail(s, c, "RecordTimeout")
    ELSE IF s.ctk[c].err = "io" THEN Fail(s, c, "OSError")
    ELSE IF enc = "missing" THEN Fail(s, c, "EncodingUnavailable")
    ELSE IF s.ctk[c].nfiles = 0 THEN Fail(s, c, "NoFramesCaptured")
    ELSE IF enc = "failed" THEN Fail(s, c, "EncodingFailed")
    ELSE Done([s EXCEPT !.ctk[c].dir = "removed"], c, "ok")

\* What follows the finally clause of the call, or the stop of the cache.
AfterStop(s, c, enc) ==
    IF s.ctk[c].op = "get_camera_snapshot" THEN SnapshotEnd(s, c)
    ELSE IF s.ctk[c].op = "record_camera_clip" THEN ClipEnd(s, c, enc)
    ELSE Done(s, c, "stopped")

\* Mutant: the connection is stopped whatever is still cached.
StopAfterUnregister_Always(s, c) == TRUE

\* Whether the connection is stopped once the callback is unregistered:
\* server.py 344 (snapshot), 423 (clip), 673 (stop_camera_cache, after its
\* channels.discard).
StopAfterUnregister(s, c) ==
    LET k == s.ctk[c]
    IN IF k.op = "record_camera_clip"
       THEN ~InCache(s, k.did, k.ch) /\ s.sessions[k.st].channels = {}
       ELSE s.sessions[k.st].channels = {}

\* Mutant: the loop stops one future early.
ClipLoopDone_Early(k) == k.idx >= Len(k.futs)

\* "for idx, fut in enumerate(frame_futures)" has run out (server.py 416).
ClipLoopDone(k) == k.idx > Len(k.futs)

\* server.py 416-418: the for loop of record_camera_clip from future idx on.
\* A future that is done is not waited for: its frame is written at once.
RECURSIVE ClipLoop(_, _)
ClipLoop(s, c) ==
    LET k == s.ctk[c]
    IN IF ClipLoopDone(k) THEN CallUnregister(s, c)
       ELSE IF k.futs[k.idx] > 0
       THEN ClipLoop([s EXCEPT !.ctk[c].nfiles = @ + 1, !.ctk[c].idx = @ + 1], c)
       ELSE [s EXCEPT !.ctk[c].pc = "fut_wait"]

\* Mutant: the exception leaves the call without the finally clause.
FinallyClause_Skipped(s, c) == AfterStop(s, c, "ok")

\* The finally clause (server.py 342-343, 421-422) when an exception passes
\* through it: the callback is unregistered first.
FinallyClause(s, c) == CallUnregister(s, c)

\* server.py 339: wait_for(future) of get_camera_snapshot.
SnapshotWait(s, c) ==
    IF s.ctk[c].futs[1] > 0 THEN CallUnregister(s, c)
    ELSE [s EXCEPT !.ctk[c].pc = "fut_wait"]

\* server.py 396-414: the scratch directory and the futures of
\* record_camera_clip, and its registration.
ClipSetup(s, c) ==
    CallRegister([s EXCEPT !.ctk[c].dir = "exists",
                           !.ctk[c].futs = [i \in 1..s.ctk[c].arg |-> 0],
                           !.ctk[c].idx = 1], c, "clip")

\* What each tool does with the session record _get_or_create_camera_instance
\* returned, up to its next await: server.py 327-337 (snapshot), 391-414
\* (clip), 575-598 (_start_camera_cache).
Continue(s, c) ==
    LET k == s.ctk[c]
    IN IF k.op = "get_camera_snapshot"
       THEN CallRegister([s EXCEPT !.ctk[c].futs = <<0>>, !.ctk[c].idx = 1], c, "snap")
       ELSE IF k.op = "record_camera_clip"
       THEN IF ~InCache(s, k.did, k.ch) /\ ~s.sessions[k.st].started
            THEN CallStart(s, c)
            ELSE ClipSetup(s, c)
       ELSE IF ~InCache(s, k.did, k.ch)
            THEN CallRegister(
                   [s EXCEPT !.bufs = Append(@, NewBuffer(k.arg)),
                             !.camera_cache[<<k.did, k.ch>>] = Len(s.bufs) + 1],
                   c, "cache")
            ELSE CacheStarted(s, c)

\* server.py 258: a pin code is given, one is bound, and they differ.
PinMismatch(pin, bound) == pin # 0 /\ bound # 0 /\ pin # bound

\* async with state["lock"]: taken at once iff free and nobody queued.
StartLockFree(rec) == rec.lock = 0 /\ rec.lockq = <<>>

\* server.py 258-269: _get_or_create_camera_instance once it has the record
\* r ("state"), up to its await or its return.
WithSession(s, c, r) ==
    LET k == s.ctk[c]
        rec == s.sessions[r]
        s1 == [s EXCEPT !.ctk[c].st = r,
                        !.sessions[r].pin_code =
                            IF k.pin # 0 /\ rec.pin_code = 0 THEN k.pin ELSE @]
    IN IF PinMismatch(k.pin, rec.pin_code)
       THEN Raise(s, c, "PinMismatch")
       ELSE IF k.sin /\ ~rec.started
       THEN IF StartLockFree(rec)
            THEN CallStart([s1 EXCEPT !.sessions[r].lock = c, !.ctk[c].lk = TRUE], c)
            ELSE [s1 EXCEPT !.sessions[r].lockq = Append(@, c),
                            !.ctk[c].pc = "lock_wait"]
       ELSE Continue(s1, c)

\* "state = camera_instances.get(camera_info.did); if state is None"
SessionAbsent(s, did) == s.camera_instances[did] = 0

\* server.py 245-247: _get_or_create_camera_instance up to its first await.
GetOrCreateCameraInstance(s, c) ==
    IF SessionAbsent(s, s.ctk[c].did)
    THEN [s EXCEPT !.ctk[c].pc = "create_wait"]
    ELSE WithSession(s, c, s.camera_instances[s.ctk[c].did])

\* _ensure_client on its fast path: the token file exists, the payload is
\* loaded, the client exists, no refresh is due and auth_lock is free; it
\* then returns the client without an await and changes nothing.
ClientReady ==
    /\ TokenExists(token_file)
    /\ payload # NoPayload
    /\ ~ClientIsNone(client)
    /\ ~NeedsRefresh(payload, now)
    /\ AuthLockFree

\* A call may be made when the calls before it have been made.
MayCall(c) ==
    /\ ctk[c].pc = "new"
    /\ \A u \in CamCalls : u < c => ctk[u].pc # "new"

\* Mutant: the test forgets the negative channels.
InvalidChannel_Upper(ch) == ch >= ChannelCount

\* "channel < 0 or channel >= (camera_info.channel_count or 1)"
InvalidChannel(ch) == ch < 0 \/ ch >= ChannelCount

\* get_camera_snapshot, server.py 303-337, from the return of
\* _get_camera_info to the first await.
GetCameraSnapshot(c, did, ch, pin) ==
    /\ MayCall(c)
    /\ ClientReady
    /\ LET s == [CamState EXCEPT !.ctk[c].op = "get_camera_snapshot",
                     !.ctk[c].did = did, !.ctk[c].ch = ch, !.ctk[c].pin = pin,
                     !.ctk[c].sin = TRUE]
       IN IF did \notin Cameras THEN SetCam(Fail(s, c, "CameraNotFound"))
          ELSE IF InvalidChannel(ch) THEN SetCam(Fail(s, c, "InvalidChannel"))
          ELSE IF InCache(s, did, ch)
          THEN LET b == s.camera_cache[<<did, ch>>]
               IN IF s.bufs[b].frames = <<>>
                  THEN SetCam([s EXCEPT !.ctk[c].buf = b, !.ctk[c].pc = "cache_wait"])
                  ELSE SetCam(Done([s EXCEPT !.ctk[c].frame =
                                       s.bufs[b].frames[Len(s.bufs[b].frames)].data],
                                   c, "ok"))
          ELSE SetCam(GetOrCreateCameraInstance(s, c))
    /\ UNCHANGED authVars

\* record_camera_clip, server.py 374-414, up to the first await after
\* _get_camera_info.
RecordCameraClip(c, did, ch, duration, fps, pin) ==
    /\ MayCall(c)
    /\ LET s == [CamState EXCEPT !.ctk[c].op = "record_camera_clip",
                     !.ctk[c].did = did, !.ctk[c].ch = ch, !.ctk[c].pin = pin,
                     !.ctk[c].arg = FrameCount(duration, fps),
                     !.ctk[c].sin = ~InCache(CamState, did, ch)]
       IN IF duration <= 0 THEN SetCam(Fail(s, c, "InvalidDuration"))
          ELSE IF fps <= 0 THEN SetCam(Fail(s, c, "InvalidFps"))
          ELSE /\ ClientReady
               /\ IF did \notin Cameras THEN SetCam(Fail(s, c, "CameraNotFound"))
                  ELSE IF InvalidChannel(ch) THEN SetCam(Fail(s, c, "InvalidChannel"))
                  ELSE SetCam(GetOrCreateCameraInstance(s, c))
    /\ UNCHANGED authVars

\* start_camera_cache and _start_camera_cache, server.py 558-621, up to the
\* first await after _get_camera_info.
StartCameraCache(c, did, ch, pin, buffer_size) ==
    /\ MayCall(c)
    /\ LET s == [CamState EXCEPT !.ctk[c].op = "start_camera_cache",
                     !.ctk[c].did = did, !.ctk[c].ch = ch, !.ctk[c].pin = pin,
                     !.ctk[c].arg = buffer_size, !.ctk[c].sin = TRUE]
       IN IF buffer_size <= 0 THEN SetCam(Fail(s, c, "InvalidBufferSize"))
          ELSE /\ ClientReady
               /\ IF did \notin Cameras THEN SetCam(Fail(s, c, "CameraNotFound"))
                  ELSE IF InvalidChannel(ch) THEN SetCam(Fail(s, c, "InvalidChannel"))
                  ELSE SetCam(GetOrCreateCameraInstance(s, c))
    /\ UNCHANGED authVars

\* stop_camera_cache, server.py 657-677, up to its first await.
StopCameraCache(c, did, ch) ==
    /\ MayCall(c)
    /\ LET s == [CamState EXCEPT !.ctk[c].op = "stop_camera_cache",
                     !.ctk[c].did = did, !.ctk[c].ch = ch]
       IN IF ~InCache(s, did, ch) THEN SetCam(Done(s, c, "not_running"))
          ELSE LET s1 == [s EXCEPT !.camera_cache[<<did, ch>>] = 0]
                   r == s.camera_instances[did]
               IN IF r # 0 /\ ch \in s.sessions[r].channels
                  THEN SetCam(CallUnregister(
                         [s1 EXCEPT !.ctk[c].st = r,
                                    !.ctk[c].reg = s.sessions[r].reg_ids[ch],
                                    !.sessions[r].reg_ids[ch] = 0], c))
                  ELSE SetCam(Done(s1, c, "stopped"))
    /\ UNCHANGED authVars

\* server.py 247-269: create_camera_instance_async returns; the new record
\* is stored under the did, whatever is stored there by now.
CreateDone(c) ==
    /\ ctk[c].pc = "create_wait"
    /\ LET r == Len(sessions) + 1
           s == [CamState EXCEPT
                    !.sessions = Append(@, NewSession(ctk[c].did, ctk[c].pin)),
                    !.conns = Append(@, NewConn),
                    !.camera_instances[ctk[c].did] = r]
       IN SetCam(WithSession(s, c, r))
    /\ UNCHANGED authVars

\* server.py 264-269: state["lock"] is handed to a queued call.
LockAcquired(c) ==
    /\ ctk[c].pc = "lock_wait"
    /\ sessions[ctk[c].st].lock = c
    /\ LET s == [CamState EXCEPT !.ctk[c].lk = TRUE]
       IN IF ~sessions[ctk[c].st].started
          THEN SetCam(CallStart(s, c))
          ELSE SetCam(Continue(ReleaseLock(s, c), c))
    /\ UNCHANGED authVars

\* server.py 266-269 and 393-394: start_async returns; started is set.
StartDone(c) ==
    /\ ctk[c].pc = "start_wait"
    /\ LET s == [CamState EXCEPT !.sessions[ctk[c].st].started = TRUE,
                                 !.conns[ctk[c].st].running = TRUE]
       IN IF ctk[c].lk
          THEN SetCam(Continue(ReleaseLock(s, c), c))
          ELSE SetCam(ClipSetup(s, c))
    /\ UNCHANGED authVars

\* register_decode_jpg_async returns the reg_id: server.py 337-339
\* (snapshot), 414-417 (clip), 594-606 (_start_camera_cache).
RegisterDone(c) ==
    /\ ctk[c].pc = "reg_wait"
    /\ LET k == ctk[c]
       IN IF k.op = "get_camera_snapshot" THEN SetCam(SnapshotWait(CamState, c))
          ELSE IF k.op = "record_camera_clip" THEN SetCam(ClipLoop(CamState, c))
          ELSE SetCam(CacheStarted([CamState EXCEPT
                                       !.sessions[k.st].channels = @ \cup {k.ch},
                                       !.sessions[k.st].reg_ids[k.ch] = k.reg],
                                   c))
    /\ UNCHANGED authVars

\* server.py 339 and 417-418: the awaited future has its frame.
FutureReady(c) ==
    /\ ctk[c].pc = "fut_wait"
    /\ ctk[c].futs[ctk[c].idx] > 0
    /\ IF ctk[c].op = "get_camera_snapshot"
       THEN SetCam(CallUnregister(CamState, c))
       ELSE SetCam(ClipLoop(CamState, c))
    /\ UNCHANGED authVars

\* server.py 418: write_bytes of a frame file raises.
ClipWriteFails(c) ==
    /\ ctk[c].pc = "fut_wait"
    /\ ctk[c].op = "record_camera_clip"
    /\ ctk[c].futs[ctk[c].idx] > 0
    /\ SetCam(FinallyClause([CamState EXCEPT !.ctk[c].err = "io"], c))
    /\ UNCHANGED authVars

\* server.py 340-341 and 419-420: wait_for times out and cancels the future.
FutureTimeout(c) ==
    /\ ctk[c].pc = "fut_wait"
    /\ ctk[c].futs[ctk[c].idx] = 0
    /\ SetCam(FinallyClause([CamState EXCEPT !.ctk[c].futs[ctk[c].idx] = -1,
                                             !.ctk[c].err = "timeout"], c))
    /\ UNCHANGED authVars

\* unregister_decode_jpg_async returns: server.py 343-345 (snapshot),
\* 422-424 (clip), 671-674 (stop_camera_cache).
UnregisterDone(c, enc) ==
    /\ ctk[c].pc = "unreg_wait"
    /\ LET k == ctk[c]
           s == [CamState EXCEPT
                    !.conns[k.st].regs = {g \in @ : ~(g.id = k.reg /\ g.ch = k.ch)},
                    !.sessions[k.st].channels =
                        IF k.op = "stop_camera_cache" THEN @ \ {k.ch} ELSE @]
       IN IF StopAfterUnregister(s, c)
          THEN SetCam(CallStop(s, c))
          ELSE SetCam(AfterStop(s, c, enc))
    /\ UNCHANGED authVars

\* stop_async returns and started is cleared: server.py 345-346, 424-425,
\* 674-677.
StopDone(c, enc) ==
    /\ ctk[c].pc = "stop_wait"
    /\ SetCam(AfterStop([CamState EXCEPT !.sessions[ctk[c].st].started = FALSE,
                                         !.conns[ctk[c].st].running = FALSE,
                                         !.conns[ctk[c].st].starts = 0],
                        c, enc))
    /\ UNCHANGED authVars

\* server.py 314-319: event.wait() of the cached snapshot has returned; the
\* newest frame of the cache dict the call holds is returned.
CacheWaitDone(c) ==
    /\ ctk[c].pc = "cache_wait"
    /\ ctk[c].woken
    /\ LET f == bufs[ctk[c].buf].frames
       IN IF f = <<>>
          THEN SetCam(Fail(CamState, c, "CacheEmpty"))
          ELSE SetCam(Done([CamState EXCEPT !.ctk[c].frame = f[Len(f)].data], c, "ok"))
    /\ UNCHANGED authVars

\* server.py 315-316: wait_for(event.wait()) times out.
CacheWaitTimeout(c) ==
    /\ ctk[c].pc = "cache_wait"
    /\ ~ctk[c].woken
    /\ SetCam(Fail(CamState, c, "SnapshotTimeout"))
    /\ UNCHANGED authVars

\* deque(maxlen=cap).append(x)
DequeAppend(q, x, cap) ==
    IF Len(q) >= cap THEN Append(Tail(q), x) ELSE Append(q, x)

\* One frame appended n times.
RECURSIVE DequeAppendTimes(_, _, _, _)
DequeAppendTimes(q, x, cap, n) ==
    IF n = 0 THEN q ELSE DequeAppendTimes(DequeAppend(q, x, cap), x, cap, n - 1)

\* Mutant: the last future that is not done.
FirstPending_Last(futs) ==
    IF \E i \in 1..Len(futs) : futs[i] = 0
    THEN CHOOSE i \in 1..Len(futs) : futs[i] = 0 /\ \A j \in (i + 1)..Len(futs) : futs[j] # 0
    ELSE 0

\* The first future of a clip that is not done (server.py 409-412); 0: none.
FirstPending(futs) ==
    IF \E i \in 1..Len(futs) : futs[i] = 0
    THEN CHOOSE i \in 1..Len(futs) : futs[i] = 0 /\ \A j \in 1..(i - 1) : futs[j] # 0
    ELSE 0

\* The _on_jpg of a snapshot (server.py 332-335) or of a clip (408-412),
\* called with frame f, on the futures of its call.
OnJpgFutures(futs, f) ==
    IF FirstPending(futs) = 0 THEN futs
    ELSE [futs EXCEPT ![FirstPending(futs)] = f]

\* The library decodes frame f of channel ch on instance r and calls every
\* callback registered for the channel: the _on_jpg closures of snapshots
\* and clips fill their futures, those of caches (server.py 585-592) append
\* to the cache dict now stored under their key and set its event.
DeliverFrame(r, ch) ==
    /\ r \in DOMAIN conns
    /\ conns[r].running
    /\ chist.nFrames < MaxFrames
    /\ \E g \in conns[r].regs : g.ch = ch
    /\ LET f == chist.nFrames + 1
           here == {g \in conns[r].regs : g.ch = ch}
           owners == {g.owner : g \in {x \in here : x.kind # "cache"}}
           ncache == Cardinality({g \in here : g.kind = "cache"})
           key == <<sessions[r].did, ch>>
           b == camera_cache[key]
           hit == ncache > 0 /\ b # 0
       IN SetCam([CamState EXCEPT
             !.chist.nFrames = f,
             !.ctk = [c \in CamCalls |->
                        IF c \in owners
                        THEN [ctk[c] EXCEPT !.futs = OnJpgFutures(@, f)]
                        ELSE IF hit /\ ctk[c].pc \in {"cache_wait", "cached_wait"}
                                    /\ ctk[c].buf = b
                        THEN [ctk[c] EXCEPT !.woken = TRUE]
                        ELSE ctk[c]],
             !.bufs = IF hit
                      THEN [@ EXCEPT ![b].frames =
                               DequeAppendTimes(@, [data |-> f, at |-> now],
                                                bufs[b].cap, ncache),
                             ![b].updated_at = now]
                      ELSE @])
    /\ UNCHANGED authVars

\* What the encoder may do when record_camera_clip reaches it.
EncoderOutcomes == {"ok", "missing", "failed"}

\* The client guard after a first tool call has gone through: the client
\* and both adapters exist, the token needs no refresh.
AuthReady ==
    /\ token_file = OAuth(1, FALSE, 0)
    /\ payload = token_file
    /\ client = [id |-> 1, grant |-> 1, inited |-> TRUE]
    /\ miot_devices_mcp = [client |-> 1, inited |-> TRUE]
    /\ miot_scenes_mcp = [client |-> 1, inited |-> TRUE]
    /\ auth_lock = 0
    /\ auth_waiters = <<>>
    /\ now = 0
    /\ tk = [t \in Calls |-> NewCall]
    /\ cb = "idle"
    /\ hist = [NoHist EXCEPT !.nConstruct = 1]

\* No camera tool has run (server.py 159-161).
NoCaches ==
    /\ camera_instances = [d \in Cameras |-> 0]
    /\ sessions = <<>>
    /\ conns = <<>>
    /\ camera_cache = [k \in Cameras \X Channels |-> 0]
    /\ bufs = <<>>

\* _auto_start_all_cameras (server.py 787-797) has gone through: channel 0
\* of every camera is cached with buffer_size 30.
AutoStarted ==
    /\ camera_instances = [d \in Cameras |-> d]
    /\ sessions = [d \in Cameras |->
                     [NewSession(d, 0) EXCEPT !.started = TRUE, !.channels = {0},
                                              !.reg_ids[0] = 1]]
    /\ conns = [d \in Cameras |->
                  [running |-> TRUE, regs |-> {Reg(1, 0, "cache", 0)},
                   starts |-> 1]]
    /\ camera_cache = [k \in Cameras \X Channels |-> IF k[2] = 0 THEN k[1] ELSE 0]
    /\ bufs = [d \in Cameras |-> NewBuffer(DefaultBufferSize)]

\* start_all_camera_cache (server.py 623-655) has returned after a call with
\* all_channels=True and the default buffer_size: every channel of every
\* camera is cached.
AllStarted ==
    /\ camera_instances = [d \in Cameras |-> d]
    /\ sessions = [d \in Cameras |->
                     [NewSession(d, 0) EXCEPT !.started = TRUE, !.channels = Channels,
                                              !.reg_ids = [ch \in Channels |-> ch + 1]]]
    /\ conns = [d \in Cameras |->
                  [running |-> TRUE,
                   regs |-> {Reg(ch + 1, ch, "cache", 0) : ch \in Channels},
                   starts |-> 1]]
    /\ camera_cache = [k \in Cameras \X Channels |->
                         (k[1] - 1) * ChannelCount + k[2] + 1]
    /\ bufs = [b \in 1..(Cardinality(Cameras) * ChannelCount) |->
                 NewBuffer(DefaultBufferSize)]

InitCam ==
    /\ AuthReady
    /\ NoCaches \/ AutoStarted \/ AllStarted
    /\ ctk = [c \in CamCalls |-> NewCamCall]
    /\ chist = [nFrames |-> 0]

NextCam ==
    \/ \E c \in CamCalls, did \in DidInputs, ch \in ChannelInputs, pin \in PinInputs :
          GetCameraSnapshot(c, did, ch, pin)
    \/ \E c \in CamCalls, did \in DidInputs, ch \in ChannelInputs, pin \in PinInputs,
          duration \in DurationInputs, fps \in FpsInputs :
          RecordCameraClip(c, did, ch, duration, fps, pin)
    \/ \E c \in CamCalls, did \in DidInputs, ch \in ChannelInputs, pin \in PinInputs,
          buffer_size \in BufferSizeInputs :
          StartCameraCache(c, did, ch, pin, buffer_size)
    \/ \E c \in CamCalls, did \in DidInputs, ch \in ChannelInputs :
          StopCameraCache(c, did, ch)
    \/ \E c \in CamCalls : CreateDone(c)
    \/ \E c \in CamCalls : LockAcquired(c)
    \/ \E c \in CamCalls : StartDone(c)
    \/ \E c \in CamCalls : RegisterDone(c)
    \/ \E c \in CamCalls : FutureReady(c)
    \/ \E c \in CamCalls : ClipWriteFails(c)
    \/ \E c \in CamCalls : FutureTimeout(c)
    \/ \E c \in CamCalls, enc \in EncoderOutcomes : UnregisterDone(c, enc)
    \/ \E c \in CamCalls, enc \in EncoderOutcomes : StopDone(c, enc)
    \/ \E c \in CamCalls : CacheWaitDone(c)
    \/ \E c \in CamCalls : CacheWaitTimeout(c)
    \/ \E r \in 1..(Cardinality(Cameras) + NumCamCalls), ch \in Channels :
          DeliverFrame(r, ch)

SpecCam == InitCam /\ [][NextCam]_vars

------------------------------------------------------------------------------
(* Reading the frame caches                                                *)

\* "count = min(count, 50)" of get_cached_camera_frames
MaxCount == 50

MaxAgeInputs == 0..MaxTime
WaitTimeoutInputs == 0..1
CountInputs == {0, 1, 2, MaxCount + 1}

\* A read call ends with result r: what it was asked and what it returned
\* stay, its references to the cache dict and the event are gone.
ReadDone(s, c, r) ==
    [s EXCEPT !.ctk[c].pc = "done", !.ctk[c].res = r, !.ctk[c].buf = 0,
              !.ctk[c].woken = FALSE]

\* "stale = updated_at is None or (now - updated_at) > max_age"
Stale(cache, t, max_age) ==
    cache.updated_at = -1 \/ (t - cache.updated_at) > max_age

\* Mutant: a stale buffer is waited for whatever wait_timeout is.
WaitsForFrame_AnyTimeout(cache, t, max_age, wait_timeout) ==
    Stale(cache, t, max_age)

\* "if stale and wait_timeout > 0"
WaitsForFrame(cache, t, max_age, wait_timeout) ==
    Stale(cache, t, max_age) /\ wait_timeout > 0

\* Mutant: the frame returned is the oldest of the buffer.
NewestFrame_Oldest(frames) == frames[1].data

\* "data, ts, _ = cache['frames'][-1]"
NewestFrame(frames) == frames[Len(frames)].data

\* server.py 699-722: get_cached_camera_snapshot from the check of
\* cache["frames"] on, reading the cache dict b the call got hold of.
ReadLatest(s, c, b) ==
    IF s.bufs[b].frames = <<>>
    THEN ReadDone(s, c, "CacheEmpty")
    ELSE ReadDone([s EXCEPT !.ctk[c].frame = NewestFrame(s.bufs[b].frames)], c, "ok")

\* get_cached_camera_snapshot, server.py 679-722, up to its await.  The
\* tool does not go through _ensure_client.  seen: the frames delivered
\* before the call.
GetCachedCameraSnapshot(c, did, ch, max_age, wait_timeout) ==
    /\ MayCall(c)
    /\ LET s == [CamState EXCEPT !.ctk[c].op = "get_cached_camera_snapshot",
                     !.ctk[c].did = did, !.ctk[c].ch = ch,
                     !.ctk[c].age = max_age, !.ctk[c].arg = wait_timeout,
                     !.ctk[c].at = now,
                     !.ctk[c].seen = chist.nFrames]
       IN IF ~InCache(s, did, ch) THEN SetCam(ReadDone(s, c, "CacheNotStarted"))
          ELSE LET b == s.camera_cache[<<did, ch>>]
               IN IF WaitsForFrame(s.bufs[b], now, max_age, wait_timeout)
                  THEN SetCam([s EXCEPT !.ctk[c].buf = b, !.ctk[c].pc = "cached_wait"])
                  ELSE SetCam(ReadLatest(s, c, b))
    /\ UNCHANGED authVars

\* server.py 695-699: event.wait() has returned.
CachedWaitDone(c) ==
    /\ ctk[c].pc = "cached_wait"
    /\ ctk[c].woken
    /\ SetCam(ReadLatest(CamState, c, ctk[c].buf))
    /\ UNCHANGED authVars

\* server.py 696-698: wait_for(event.wait(), timeout=wait_timeout) times out.
CachedWaitTimeout(c) ==
    /\ ctk[c].pc = "cached_wait"
    /\ ~ctk[c].woken
    /\ SetCam(ReadDone(CamState, c, "CacheWaitTimeout"))
    /\ UNCHANGED authVars

\* Mutant: the whole buffer is returned.
LastFrames_All(frames, count) == frames

\* "list(cache['frames'])[-count:]" for count > 0
LastFrames(frames, count) ==
    IF count >= Len(frames) THEN frames
    ELSE SubSeq(frames, Len(frames) - count + 1, Len(frames))

\* "count = min(count, 50)"
CappedCount(count) == IF count < MaxCount THEN count ELSE MaxCount

\* get_cached_camera_frames, server.py 724-764.  out: the frames returned.
GetCachedCameraFrames(c, did, ch, count) ==
    /\ MayCall(c)
    /\ LET s == [CamState EXCEPT !.ctk[c].op = "get_cached_camera_frames",
                     !.ctk[c].did = did, !.ctk[c].ch = ch, !.ctk[c].arg = count]
       IN IF count <= 0 THEN SetCam(ReadDone(s, c, "InvalidCount"))
          ELSE IF ~InCache(s, did, ch) THEN SetCam(ReadDone(s, c, "CacheNotStarted"))
          ELSE LET frames == LastFrames(s.bufs[s.camera_cache[<<did, ch>>]].frames,
                                        CappedCount(count))
               IN IF frames = <<>>
                  THEN SetCam(ReadDone(s, c, "CacheEmpty"))
                  ELSE SetCam(ReadDone(
                         [s EXCEPT !.ctk[c].out = [i \in 1..Len(frames) |-> frames[i].data]],
                         c, "ok"))
    /\ UNCHANGED authVars

\* A cache was started with a buffer_size above the cap of
\* get_cached_camera_frames and has received more frames than the cap.
LongBuffer ==
    /\ camera_instances = [d \in Cameras |-> d]
    /\ sessions = [d \in Cameras |->
                     [NewSession(d, 0) EXCEPT !.started = TRUE, !.channels = {0},
                                              !.reg_ids[0] = 1]]
    /\ conns = [d \in Cameras |->
                  [running |-> TRUE, regs |-> {Reg(1, 0, "cache", 0)},
                   starts |-> 1]]
    /\ camera_cache = [k \in Cameras \X Channels |-> IF k[2] = 0 THEN k[1] ELSE 0]
    /\ bufs = [d \in Cameras |->
                 [frames |-> [i \in 1..(MaxCount + 1) |-> [data |-> i, at |-> 0]],
                  cap |-> MaxCount + 2, updated_at |-> 0]]

\* What a stop_camera_cache that ran while the start_camera_cache of the
\* same channel awaited its registration leaves behind (server.py 661-677,
\* 594-600): the buffer is gone, the callback is registered and the channel
\* is in the active set.
Leaked ==
    /\ camera_instances = [d \in Cameras |-> d]
    /\ sessions = [d \in Cameras |->
                     [NewSession(d, 0) EXCEPT !.started = TRUE, !.channels = {0},
                                              !.reg_ids[0] = 1]]
    /\ conns = [d \in Cameras |->
                  [running |-> TRUE, regs |-> {Reg(1, 0, "cache", 0)},
                   starts |-> 1]]
    /\ camera_cache = [k \in Cameras \X Channels |-> 0]
    /\ bufs = <<>>

\* The buffer_size values start_camera_cache is called with where buffers
\* are read: refused, a buffer of one frame, a buffer of two.
CacheSizeInputs == 0..2

InitCache ==
    /\ AuthReady
    /\ ctk = [c \in CamCalls |-> NewCamCall]
    /\ \/ (NoCaches \/ AutoStarted \/ AllStarted \/ Leaked) /\ chist = [nFrames |-> 0]
       \/ LongBuffer /\ chist = [nFrames |-> MaxCount + 1]

NextCache ==
    \/ \E c \in CamCalls, did \in DidInputs, ch \in ChannelInputs, pin \in PinInputs,
          buffer_size \in CacheSizeInputs :
          StartCameraCache(c, did, ch, pin, buffer_size)
    \/ \E c \in CamCalls, did \in DidInputs, ch \in ChannelInputs :
          StopCameraCache(c, did, ch)
    \/ \E c \in CamCalls, did \in Cameras, ch \in Channels,
          max_age \in MaxAgeInputs, wait_timeout \in WaitTimeoutInputs :
          GetCachedCameraSnapshot(c, did, ch, max_age, wait_timeout)
    \/ \E c \in CamCalls, did \in Cameras, ch \in Channels, count \in CountInputs :
          GetCachedCameraFrames(c, did, ch, count)
    \/ \E c \in CamCalls : CreateDone(c)
    \/ \E c \in CamCalls : LockAcquired(c)
    \/ \E c \in CamCalls : StartDone(c)
    \/ \E c \in CamCalls : RegisterDone(c)
    \/ \E c \in CamCalls : UnregisterDone(c, "ok")
    \/ \E c \in CamCalls : StopDone(c, "ok")
    \/ \E c \in CamCalls : CachedWaitDone(c)
    \/ \E c \in CamCalls : CachedWaitTimeout(c)
    \/ \E r \in 1..(Cardinality(Cameras) + NumCamCalls), ch \in Channels :
          DeliverFrame(r, ch)
    \/ Tick

SpecCache == InitCache /\ [][NextCache]_vars

------------------------------------------------------------------------------
(* Pin codes                                                               *)

\* The pin_code arguments: 0 is None (or the empty string, which the tests
\* "if pin_code" of server.py 258-260 treat alike), 1 and 2 are two pins.
PinCodes == 0..2

InitPin ==
    /\ AuthReady
    /\ NoCaches
    /\ ctk = [c \in CamCalls |-> NewCamCall]
    /\ chist = [nFrames |-> 0]

NextPin ==
    \/ \E c \in CamCalls, did \in Cameras, ch \in Channels, pin \in PinCodes :
          GetCameraSnapshot(c, did, ch, pin)
    \/ \E c \in CamCalls, did \in Cameras, ch \in Channels, pin \in PinCodes :
          RecordCameraClip(c, did, ch, 1, 1, pin)
    \/ \E c \in CamCalls, did \in Cameras, ch \in Channels, pin \in PinCodes :
          StartCameraCache(c, did, ch, pin, 1)
    \/ \E c \in CamCalls : CreateDone(c)
    \/ \E c \in CamCalls : LockAcquired(c)
    \/ \E c \in CamCalls : StartDone(c)
    \/ \E c \in CamCalls : RegisterDone(c)
    \/ \E c \in CamCalls : FutureReady(c)
    \/ \E c \in CamCalls : FutureTimeout(c)
    \/ \E c \in CamCalls : UnregisterDone(c, "ok")
    \/ \E c \in CamCalls : StopDone(c, "ok")
    \/ \E c \in CamCalls : CacheWaitDone(c)
    \/ \E c \in CamCalls : CacheWaitTimeout(c)
    \/ \E r \in 1..(Cardinality(Cameras) + NumCamCalls), ch \in Channels :
          DeliverFrame(r, ch)

SpecPin == InitPin /\ [][NextPin]_vars

------------------------------------------------------------------------------
(* start_all_camera_cache, the auto-start task, failing library calls      *)

MaxTries == 2

\* The cameras get_cameras_async returns, in the order of its dict.
BatchCameras == <<1, 2>>

\* The _auto_start_all_cameras task is created before any tool is called
\* (server.py 797): it is the first call.
AutoTask == 1

\* server.py 637-642: the (did, channel) pairs the two loops of
\* start_all_camera_cache visit, in order; a channel the camera does not
\* have is skipped.
BatchItems(channel, all_channels) ==
    IF all_channels
    THEN [i \in 1..(Len(BatchCameras) * ChannelCount) |->
            <<BatchCameras[((i - 1) \div ChannelCount) + 1], (i - 1) % ChannelCount>>]
    ELSE IF channel < 0 \/ channel >= ChannelCount THEN <<>>
    ELSE [i \in 1..Len(BatchCameras) |-> <<BatchCameras[i], channel>>]

\* _ensure_client as the calls below meet it: either on its fast path, or
\* the token file is missing and the payload already dropped, and it raises
\* the authorization-required ToolError without changing anything
\* (server.py 173-175).
GuardSettled ==
    \/ ClientReady
    \/ ~TokenExists(token_file) /\ payload = NoPayload /\ AuthLockFree

\* server.py 634-635: start_all_camera_cache from _ensure_client to the
\* await of get_cameras_async.
BatchBegin(s, c) ==
    IF ~TokenExists(token_file)
    THEN IF s.ctk[c].auto THEN AutoSleep(s, c, 0) ELSE Fail(s, c, "AuthRequired")
    ELSE [s EXCEPT !.ctk[c].pc = "list_wait"]

\* start_all_camera_cache, server.py 623-635, up to its first await.
StartAllCameraCache(c, channel, pin, buffer_size, all_channels) ==
    /\ MayCall(c)
    /\ LET s == [CamState EXCEPT !.ctk[c].op = "start_all_camera_cache",
                     !.ctk[c].pin = pin, !.ctk[c].arg = buffer_size,
                     !.ctk[c].sin = TRUE,
                     !.ctk[c].todo = BatchItems(channel, all_channels)]
       IN IF buffer_size <= 0 THEN SetCam(Fail(s, c, "InvalidBufferSize"))
          ELSE IF channel < 0 THEN SetCam(Fail(s, c, "InvalidChannel"))
          ELSE GuardSettled /\ SetCam(BatchBegin(s, c))
    /\ UNCHANGED authVars

\* One attempt of _auto_start_all_cameras (server.py 788-790):
\* start_all_camera_cache(channel=0, buffer_size=30, all_channels=False).
AutoAttempt(s, c) ==
    BatchBegin([s EXCEPT !.ctk[c].op = "start_all_camera_cache",
                         !.ctk[c].arg = DefaultBufferSize,
                         !.ctk[c].sin = TRUE, !.ctk[c].auto = TRUE,
                         !.ctk[c].todo = BatchItems(0, FALSE)], c)

\* The task created at server.py 797 runs its first attempt.
AutoStartAllCameras ==
    /\ MayCall(AutoTask)
    /\ GuardSettled
    /\ SetCam(AutoAttempt(CamState, AutoTask))
    /\ UNCHANGED authVars

\* server.py 793/795 and 788-790: asyncio.sleep(5) returns and the loop
\* runs the next attempt.
AutoRetry(c) ==
    /\ ctk[c].pc = "sleep"
    /\ GuardSettled
    /\ ctk[c].slept = SleepSeconds
    /\ SetCam(AutoAttempt([CamState EXCEPT !.ctk[c].slept = 0], c))
    /\ UNCHANGED authVars

\* A library call of the task may still raise: its failures are bounded.
MayFail(c) == ctk[c].auto => ctk[c].tries < MaxTries

\* server.py 635-642: get_cameras_async returns the cameras; the loops
\* start with the first (did, channel), up to the await in
\* _get_camera_info.
ListDone(c) ==
    /\ ctk[c].pc = "list_wait"
    /\ LET k == ctk[c]
       IN IF k.todo = <<>> THEN SetCam(BatchEnd(CamState, c))
          ELSE SetCam([CamState EXCEPT !.ctk[c].did = Head(k.todo)[1],
                                       !.ctk[c].ch = Head(k.todo)[2],
                                       !.ctk[c].todo = Tail(k.todo),
                                       !.ctk[c].pc = "info_wait"])
    /\ UNCHANGED authVars

\* server.py 635: get_cameras_async raises.
ListFails(c) ==
    /\ ctk[c].pc = "list_wait"
    /\ MayFail(c)
    /\ SetCam(Crash(CamState, c, "LibraryError"))
    /\ UNCHANGED authVars

\* server.py 565-574: _get_camera_info returns inside _start_camera_cache;
\* the channel is one the camera has.
InfoDone(c) ==
    /\ ctk[c].pc = "info_wait"
    /\ SetCam(GetOrCreateCameraInstance(CamState, c))
    /\ UNCHANGED authVars

\* server.py 266: start_async raises.
StartFails(c) ==
    /\ ctk[c].pc = "start_wait"
    /\ MayFail(c)
    /\ SetCam(Crash(CamState, c, "LibraryError"))
    /\ UNCHANGED authVars

\* server.py 337, 414, 594: register_decode_jpg_async raises; the callback
\* is not registered.
RegisterFails(c) ==
    /\ ctk[c].pc = "reg_wait"
    /\ MayFail(c)
    /\ LET k == ctk[c]
       IN SetCam(Crash([CamState EXCEPT
                          !.conns[k.st].regs = {g \in @ : ~(g.id = k.reg /\ g.owner = c)}],
                       c, "LibraryError"))
    /\ UNCHANGED authVars

\* The token file was removed and a call has noticed: the payload is
\* dropped, the client and its adapters live on (server.py 173-175).
TokenLost ==
    /\ token_file = NoPayload
    /\ payload = NoPayload
    /\ client = [id |-> 1, grant |-> 1, inited |-> TRUE]
    /\ miot_devices_mcp = [client |-> 1, inited |-> TRUE]
    /\ miot_scenes_mcp = [client |-> 1, inited |-> TRUE]
    /\ auth_lock = 0
    /\ auth_waiters = <<>>
    /\ now = 0
    /\ tk = [t \in Calls |-> NewCall]
    /\ cb = "idle"
    /\ hist = [NoHist EXCEPT !.nConstruct = 1]

InitBatch ==
    /\ AuthReady \/ TokenLost
    /\ camera_instances = [i \in 1..Len(BatchCameras) |-> 0]
    /\ sessions = <<>>
    /\ conns = <<>>
    /\ camera_cache = [k \in (1..Len(BatchCameras)) \X Channels |-> 0]
    /\ bufs = <<>>
    /\ ctk = [c \in CamCalls |-> NewCamCall]
    /\ chist = [nFrames |-> 0]

NextBatch ==
    \/ AutoStartAllCameras
    \/ \E c \in CamCalls, channel \in {-1, 0, ChannelCount}, pin \in {0, 2},
          buffer_size \in BufferSizeInputs, all_channels \in BOOLEAN :
          StartAllCameraCache(c, channel, pin, buffer_size, all_channels)
    \/ \E c \in CamCalls, pin \in {0, 1} : StartCameraCache(c, 1, 0, pin, 1)
    \/ \E c \in CamCalls : AutoRetry(c)
    \/ \E c \in CamCalls : ListDone(c)
    \/ \E c \in CamCalls : ListFails(c)
    \/ \E c \in CamCalls : InfoDone(c)
    \/ \E c \in CamCalls : CreateDone(c)
    \/ \E c \in CamCalls : LockAcquired(c)
    \/ \E c \in CamCalls : StartDone(c)
    \/ \E c \in CamCalls : StartFails(c)
    \/ \E c \in CamCalls : RegisterDone(c)
    \/ \E c \in CamCalls : RegisterFails(c)
    \/ CallbackBegin
    \/ CallbackDone(RefreshWindow)

SpecBatch == InitBatch /\ [][NextBatch]_vars

\* The auto-start task next to one start_camera_cache call.
NextAuto ==
    \/ AutoStartAllCameras
    \/ \E pin \in {0, 1} : StartCameraCache(2, 1, 0, pin, 1)
    \/ \E c \in CamCalls : AutoRetry(c)
    \/ \E c \in CamCalls : ListDone(c)
    \/ \E c \in CamCalls : ListFails(c)
    \/ \E c \in CamCalls : InfoDone(c)
    \/ \E c \in CamCalls : CreateDone(c)
    \/ \E c \in CamCalls : LockAcquired(c)
    \/ \E c \in CamCalls : StartDone(c)
    \/ \E c \in CamCalls : StartFails(c)
    \/ \E c \in CamCalls : RegisterDone(c)
    \/ \E c \in CamCalls : RegisterFails(c)
    \/ CallbackBegin
    \/ CallbackDone(RefreshWindow)

SpecAuto == InitBatch /\ [][NextAuto]_vars

\* What a call is waiting for comes in the end: an awaited library call
\* returns (unless it raises), a lock is handed over, a sleep ends.
Resumes(c) ==
    \/ AutoRetry(c)
    \/ ListDone(c)
    \/ InfoDone(c)
    \/ CreateDone(c)
    \/ LockAcquired(c)
    \/ StartDone(c)
    \/ RegisterDone(c)

FairAuto == SpecAuto /\ \A c \in CamCalls : WF_vars(Resumes(c))

------------------------------------------------------------------------------
(* Properties of camera sessions and frame caches                          *)

\* A call is under way.
InFlight(c) == ctk[c].pc \notin {"new", "done"}

\* The session records made for a device, the one in camera_instances and
\* any it has replaced there.
SessionsOf(did) == {r \in DOMAIN sessions : sessions[r].did = did}

\* Every session record is the one camera_instances holds for its device.
NoneReplaced ==
    \A r \in DOMAIN sessions : camera_instances[sessions[r].did] = r

\* A start or a stop of the connection of session r is awaited.
StartStopInFlight(r) ==
    \E c \in CamCalls : ctk[c].st = r /\ ctk[c].pc \in {"lock_wait", "start_wait", "stop_wait"}

\* The registrations on the connection of session r whose register call
\* has returned.
ActiveRegs(r) ==
    {g \in conns[r].regs : g.owner = 0 \/ ctk[g.owner].pc # "reg_wait"}

\* C1: the connection of a session is never stopped, and started never set
\* to false, while a frame registration on the session is active: in every
\* state with no start or stop in flight, a session that has a registration
\* (of a cache, a snapshot or a clip) is started.  Only sessions that never
\* were replaced in camera_instances are looked at.
C1_NoStopWhileRegistered ==
    NoneReplaced =>
        \A r \in DOMAIN sessions :
            (ActiveRegs(r) # {} /\ ~StartStopInFlight(r))
                => (sessions[r].started /\ conns[r].running)

\* A start_camera_cache or stop_camera_cache of (did, ch) is under way.
CacheCallInFlight(did, ch) ==
    \E c \in CamCalls :
        /\ InFlight(c)
        /\ ctk[c].op \in {"start_camera_cache", "stop_camera_cache"}
        /\ ctk[c].did = did
        /\ ctk[c].ch = ch

\* C2: under any interleaving of the four camera tools, whenever a buffer
\* exists for (did, ch) and no start or stop of that (did, ch) is under way,
\* the channel is in the session's active set, the registration recorded
\* for it is registered on the connection, and the session is started.
\* Only states where no session record was replaced are looked at.
C2_BufferImpliesRegistration ==
    NoneReplaced =>
        \A did \in Cameras, ch \in Channels :
            (InCache(CamState, did, ch) /\ ~CacheCallInFlight(did, ch))
                => LET r == camera_instances[did]
                   IN /\ r # 0
                      /\ ch \in sessions[r].channels
                      /\ \E g \in conns[r].regs :
                            g.id = sessions[r].reg_ids[ch] /\ g.ch = ch /\ g.kind = "cache"
                      /\ sessions[r].started
                      /\ conns[r].running

\* C3: at most one session record and one connection handle exists per
\* device, whatever the interleaving of first accesses.
C3_OneSessionPerDevice ==
    \A did \in Cameras : Cardinality(SessionsOf(did)) <= 1

\* The cached channels of a device other than ch.
OtherCached(did, ch) ==
    {x \in Channels : x # ch /\ InCache(CamState, did, x)}

\* stop_camera_cache call c runs alone on a device whose session records
\* what is cached: no other call is under way, the session is the one in
\* camera_instances, its active set is the cached channels and the channel
\* being removed.
StopRunsAlone(c) ==
    /\ ctk[c].op = "stop_camera_cache"
    /\ ctk[c].pc \in {"unreg_wait", "stop_wait"}
    /\ \A u \in CamCalls \ {c} : ~InFlight(u)
    /\ camera_instances[ctk[c].did] = ctk[c].st
    /\ sessions[ctk[c].st].channels = OtherCached(ctk[c].did, ctk[c].ch) \cup {ctk[c].ch}

RECURSIVE SumStarts(_)
SumStarts(rs) ==
    IF rs = {} THEN 0
    ELSE LET r == CHOOSE x \in rs : TRUE
         IN conns[r].starts + SumStarts(rs \ {r})

\* The cache callbacks registered for channel ch on the connections of a
\* device, each with the session it is registered on.
CacheRegs(did, ch) ==
    {<<r, g>> \in SessionsOf(did) \X UNION {conns[r].regs : r \in DOMAIN conns} :
        g \in conns[r].regs /\ g.ch = ch /\ g.kind = "cache"}

\* C5: start_camera_cache is idempotent per (did, channel).  After two
\* calls for the same (did, channel), consecutive or overlapping, there is
\* one buffer and one decode registration for it, on the connection of the
\* device's session, and the connection was started once.
C5_StartIdempotent ==
    (/\ \A c \in CamCalls : ctk[c].op = "start_camera_cache" /\ ctk[c].res = "started"
     /\ ctk[1].did = ctk[2].did
     /\ ctk[1].ch = ctk[2].ch)
        => LET did == ctk[1].did
               ch == ctk[1].ch
           IN /\ InCache(CamState, did, ch)
              /\ Cardinality(CacheRegs(did, ch)) = 1
              /\ \A p \in CacheRegs(did, ch) : p[1] = camera_instances[did]
              /\ SumStarts(SessionsOf(did)) = 1

\* C10: get_camera_snapshot on its transient path and record_camera_clip
\* unregister the callback they registered on every exit path before they
\* return: no callback of a call that has returned is registered.  And a
\* capture future is fulfilled at most once: a future that holds a frame or
\* was cancelled keeps its value, whatever frames are delivered later.
C10_UnregisteredAndOneShot ==
    /\ [](\A c \in CamCalls : \A r \in DOMAIN conns : \A g \in conns[r].regs :
             (g.owner = c /\ g.kind \in {"snap", "clip"}) => ctk[c].pc # "done")
    /\ [][\A c \in CamCalls : \A i \in DOMAIN ctk[c].futs :
             (ctk[c].futs[i] # 0 /\ i \in DOMAIN ctk'[c].futs)
                 => ctk'[c].futs[i] = ctk[c].futs[i]]_vars

\* A snapshot is the only call made; its callback got frame 1, which
\* fulfilled its future, and then frame 2 while it was still registered.
C10_Witness ==
    \E c \in CamCalls :
        /\ ctk[c].op = "get_camera_snapshot"
        /\ ctk[c].pc = "unreg_wait"
        /\ ctk[c].futs = <<1>>
        /\ chist.nFrames = 2
        /\ \A u \in CamCalls \ {c} : ctk[u].pc = "new"
        /\ \A r \in DOMAIN conns : \A g \in conns[r].regs : g.owner = c

\* C11: a get_camera_snapshot on a channel with no buffer returns the first
\* frame its callback was given, or fails with SnapshotTimeout when its
\* future was cancelled; and when it returns, the connection is stopped and
\* started is false if no channel of the device is cached, and the
\* connection is running if a channel of the device is cached.  Only
\* returns with no other camera call under way are looked at, in runs where
\* no session record was replaced.
C11_TransientSnapshot ==
    [][\A c \in CamCalls :
         LET k == ctk[c]
         IN (/\ k.op = "get_camera_snapshot"
             /\ k.pc \in {"unreg_wait", "stop_wait"}
             /\ ctk'[c].pc = "done"
             /\ \A u \in CamCalls \ {c} : ctk'[u].pc \in {"new", "done"}
             /\ NoneReplaced')
            => /\ \/ ctk'[c].res = "ok" /\ k.futs[1] > 0 /\ ctk'[c].frame = k.futs[1]
                  \/ ctk'[c].res = "SnapshotTimeout" /\ k.futs[1] = -1
               /\ (\A x \in Channels : camera_cache'[<<k.did, x>>] = 0)
                     => (~sessions'[k.st].started /\ ~conns'[k.st].running)
               /\ (\E x \in Channels : camera_cache'[<<k.did, x>>] # 0)
                     => (sessions'[k.st].started /\ conns'[k.st].running)]_vars

\* Call c makes get_cached_camera_snapshot in this step.
CachedSnapshotBegins(c) ==
    ctk[c].pc = "new" /\ ctk'[c].op = "get_cached_camera_snapshot"

\* Call c leaves the wait of get_cached_camera_snapshot in this step.
CachedWaitEnds(c) ==
    ctk[c].pc = "cached_wait" /\ ctk'[c].pc # "cached_wait"

\* C12 as stated: a waiter that an append woke returns that newly appended
\* frame, so no frame that was appended to its buffer after the call began
\* is older than the frame it returns.
C12_ReturnsWakingFrame ==
    [][\A c \in CamCalls :
         (CachedWaitEnds(c) /\ ctk[c].woken)
            => \A i \in DOMAIN bufs[ctk[c].buf].frames :
                  bufs[ctk[c].buf].frames[i].data > ctk[c].seen
                     => ctk'[c].frame <= bufs[ctk[c].buf].frames[i].data]_vars

\* C12, amended: get_cached_camera_snapshot with wait_timeout > 0 fails with
\* CacheNotStarted when there is no buffer, returns the newest frame at once
\* when the buffer is not stale, and suspends when the buffer is empty or
\* stale; every append to the buffer wakes every call waiting on it; a woken
\* call returns the newest frame the buffer holds when it resumes, which is
\* the frame that woke it or a later one and never a frame that was in the
\* buffer when the call began; a call that no append woke fails with
\* CacheWaitTimeout and returns no frame.
C12_WaitForFrame ==
    [][\A c \in CamCalls :
         /\ (CachedSnapshotBegins(c) /\ ctk'[c].arg > 0)
               => LET b == camera_cache[<<ctk'[c].did, ctk'[c].ch>>]
                  IN IF b = 0
                     THEN ctk'[c].pc = "done" /\ ctk'[c].res = "CacheNotStarted"
                     ELSE IF bufs[b].updated_at = -1
                             \/ now - bufs[b].updated_at > ctk'[c].age
                     THEN ctk'[c].pc = "cached_wait" /\ ctk'[c].buf = b
                     ELSE /\ ctk'[c].pc = "done" /\ ctk'[c].res = "ok"
                          /\ ctk'[c].frame = bufs[b].frames[Len(bufs[b].frames)].data
         /\ (ctk[c].pc = "cached_wait"
               /\ bufs'[ctk[c].buf].frames # <<>>
               /\ bufs'[ctk[c].buf].frames # bufs[ctk[c].buf].frames)
               => ctk'[c].pc = "cached_wait" /\ ctk'[c].woken
         /\ (CachedWaitEnds(c) /\ ctk[c].woken)
               => LET q == bufs[ctk[c].buf].frames
                  IN /\ ctk'[c].pc = "done" /\ ctk'[c].res = "ok"
                     /\ ctk'[c].frame = q[Len(q)].data
                     /\ ctk'[c].frame > ctk[c].seen
         /\ (CachedWaitEnds(c) /\ ~ctk[c].woken)
               => /\ ctk'[c].pc = "done" /\ ctk'[c].res = "CacheWaitTimeout"
                  /\ ctk'[c].frame = 0]_vars

\* A call found its buffer empty, waited, and returned the second of two
\* frames that were appended before it resumed.
C12_Witness ==
    \E c \in CamCalls :
        /\ ctk[c].op = "get_cached_camera_snapshot"
        /\ ctk[c].pc = "done" /\ ctk[c].res = "ok"
        /\ ctk[c].arg > 0
        /\ ctk[c].seen = 0
        /\ ctk[c].frame = 2

\* C13: get_cached_camera_snapshot with wait_timeout = 0 never suspends and
\* never fails with CacheWaitTimeout; when it finds a buffer it returns at
\* once, the newest frame however stale the buffer is, or the cache-empty
\* error when the buffer holds no frame.
C13_NoWaitReadsNewest ==
    /\ [](\A c \in CamCalls :
             (ctk[c].op = "get_cached_camera_snapshot" /\ ctk[c].arg = 0)
                => (ctk[c].pc # "cached_wait" /\ ctk[c].res # "CacheWaitTimeout"))
    /\ [][\A c \in CamCalls :
             (CachedSnapshotBegins(c) /\ ctk'[c].arg = 0
                 /\ camera_cache[<<ctk'[c].did, ctk'[c].ch>>] # 0)
                => LET q == bufs[camera_cache[<<ctk'[c].did, ctk'[c].ch>>]].frames
                   IN /\ ctk'[c].pc = "done"
                      /\ IF q = <<>>
                         THEN ctk'[c].res = "CacheEmpty"
                         ELSE ctk'[c].res = "ok" /\ ctk'[c].frame = q[Len(q)].data]_vars

\* A call with wait_timeout = 0 and max_age = 0, made at time 1, returned
\* the newest frame, which had arrived at time 0.
C13_Witness ==
    \E c \in CamCalls :
        /\ ctk[c].op = "get_cached_camera_snapshot"
        /\ ctk[c].pc = "done" /\ ctk[c].res = "ok"
        /\ ctk[c].arg = 0 /\ ctk[c].age = 0 /\ ctk[c].at = 1
        /\ \E b \in DOMAIN bufs : \E i \in DOMAIN bufs[b].frames :
              bufs[b].frames[i] = [data |-> ctk[c].frame, at |-> 0]

\* min(count, 50, buffer length)
FramesDue(count, frames) ==
    IF CappedCount(count) < Len(frames) THEN CappedCount(count) ELSE Len(frames)

\* C14: get_cached_camera_frames(count) returns in the step it is called,
\* without waiting and leaving every buffer as it is: CacheNotStarted when
\* there is no buffer, CacheEmpty when the buffer holds no frame, else the
\* last min(count, 50, buffer length) frames in arrival order, ending with
\* the newest.
C14_LastFrames ==
    [][\A c \in CamCalls :
         (ctk[c].pc = "new" /\ ctk'[c].op = "get_cached_camera_frames"
             /\ ctk'[c].arg > 0)
            => LET b == camera_cache[<<ctk'[c].did, ctk'[c].ch>>]
               IN /\ ctk'[c].pc = "done"
                  /\ bufs' = bufs /\ camera_cache' = camera_cache
                  /\ IF b = 0 THEN ctk'[c].res = "CacheNotStarted"
                     ELSE IF bufs[b].frames = <<>> THEN ctk'[c].res = "CacheEmpty"
                     ELSE LET q == bufs[b].frames
                              n == FramesDue(ctk'[c].arg, q)
                          IN /\ ctk'[c].res = "ok"
                             /\ Len(ctk'[c].out) = n
                             /\ \A i \in 1..n :
                                   ctk'[c].out[i] = q[Len(q) - n + i].data
                             /\ ctk'[c].out[n] = q[Len(q)].data]_vars

\* A call asked for more frames than the cap of a buffer that holds more
\* than the cap, and got as many as the cap.
C14_Witness ==
    \E c \in CamCalls :
        /\ ctk[c].op = "get_cached_camera_frames"
        /\ ctk[c].pc = "done" /\ ctk[c].res = "ok"
        /\ ctk[c].arg > MaxCount
        /\ Len(ctk[c].out) = MaxCount
        /\ ctk[c].out[MaxCount] = MaxCount + 1

\* C15: a buffer in camera_cache has a positive capacity and never holds
\* more frames than that; it holds frames in arrival order, each frame the
\* camera produced at most once, and its updated_at is the receipt time of
\* its newest frame.
C15_BufferHoldsRecentFrames ==
    \A key \in DOMAIN camera_cache :
        camera_cache[key] # 0
        => LET b == bufs[camera_cache[key]]
           IN /\ b.cap > 0
              /\ Len(b.frames) <= b.cap
              /\ \A i, j \in 1..Len(b.frames) :
                    i < j => b.frames[i].data < b.frames[j].data
              /\ b.frames # <<>> => b.updated_at = b.frames[Len(b.frames)].at

\* The callbacks registered anywhere that belong to call c.
RegsOwnedBy(c) == UNION {{g \in conns[r].regs : g.owner = c} : r \in DOMAIN conns}

\* Call c is a record_camera_clip that ends in this step.
ClipEnds(c) ==
    /\ ctk[c].op = "record_camera_clip"
    /\ ctk[c].pc \in {"unreg_wait", "stop_wait"}
    /\ ctk'[c].pc = "done"

\* C16: frame_count is max(1, duration * fps), 20 for duration 2 and fps 10;
\* a record_camera_clip that reaches the encoder (it returns, or fails with
\* EncodingFailed) had one future per frame, had written exactly frame_count
\* frame files before, and has no callback registered any more.
C16_ClipWritesFrameCount ==
    /\ [](/\ FrameCount(2, 10) = 20
          /\ \A d \in DurationInputs, f \in FpsInputs :
                FrameCount(d, f) = IF d * f > 1 THEN d * f ELSE 1)
    /\ [][\A c \in CamCalls :
             (ClipEnds(c) /\ ctk'[c].res \in {"ok", "EncodingFailed"})
             => /\ Len(ctk[c].futs) = ctk[c].arg
                /\ \A i \in 1..Len(ctk[c].futs) : ctk[c].futs[i] > 0
                /\ ctk[c].nfiles = ctk[c].arg
                /\ ctk'[c].nfiles = ctk[c].arg
                /\ RegsOwnedBy(c)' = {}]_vars

\* A two-frame clip has returned with both frame files written.
C16_Witness ==
    \E c \in CamCalls :
        /\ ctk[c].op = "record_camera_clip"
        /\ ctk[c].pc = "done"
        /\ ctk[c].res = "ok"
        /\ ctk[c].nfiles = 2

\* C17: a record_camera_clip whose callback was given no frame before its
\* wait ran out fails with NoFramesCaptured.
C17_NoFramesCaptured ==
    [][\A c \in CamCalls :
         (/\ ClipEnds(c)
          /\ ctk[c].futs # <<>>
          /\ \A i \in 1..Len(ctk[c].futs) : ctk[c].futs[i] <= 0)
         => ctk'[c].res = "NoFramesCaptured"]_vars

\* The lowest index of a pending future, 0 if there is none.
LowestPending(futs) ==
    IF \A i \in 1..Len(futs) : futs[i] # 0 THEN 0
    ELSE CHOOSE i \in 1..Len(futs) : futs[i] = 0 /\ \A j \in 1..Len(futs) : futs[j] = 0 => i <= j

\* C18: a frame delivered to the callback of a record_camera_clip sets the
\* lowest-indexed future that is still pending and no other, and changes
\* nothing when none is pending; a future that has a frame keeps it; the
\* frames in the futures are in arrival order with no pending future before
\* a filled one; and the frame files written are those of the first nfiles
\* futures.
C18_NextUnfilledSlot ==
    /\ [](\A c \in CamCalls :
            ctk[c].op = "record_camera_clip"
            => /\ \A i, j \in 1..Len(ctk[c].futs) :
                     (i < j /\ ctk[c].futs[j] > 0)
                     => /\ ctk[c].futs[i] # 0
                        /\ ctk[c].futs[i] > 0 => ctk[c].futs[i] < ctk[c].futs[j]
               /\ InFlight(c) => /\ ctk[c].nfiles <= Len(ctk[c].futs)
                                  /\ \A i \in 1..ctk[c].nfiles : ctk[c].futs[i] > 0)
    /\ [][\A r \in 1..(Cardinality(Cameras) + NumCamCalls), ch \in Channels :
             DeliverFrame(r, ch)
             => \A g \in conns[r].regs :
                  (g.ch = ch /\ g.kind = "clip")
                  => LET futs == ctk[g.owner].futs
                         p == LowestPending(futs)
                     IN ctk'[g.owner].futs =
                          IF p = 0 THEN futs
                          ELSE [i \in 1..Len(futs) |->
                                  IF i = p THEN chist'.nFrames ELSE futs[i]]]_vars
    /\ [][\A c \in CamCalls :
             \A i \in 1..Len(ctk[c].futs) :
                 (ctk[c].futs[i] > 0 /\ Len(ctk'[c].futs) = Len(ctk[c].futs))
                 => ctk'[c].futs[i] = ctk[c].futs[i]]_vars

\* A two-frame clip has both futures filled, in arrival order, and both
\* files written.
C18_Witness ==
    \E c \in CamCalls :
        /\ ctk[c].op = "record_camera_clip"
        /\ InFlight(c)
        /\ ctk[c].futs = <<1, 2>>
        /\ ctk[c].nfiles = 2

\* C19: the scratch directory of a record_camera_clip that has ended is
\* gone after a return and after a timeout, and still exists only when the
\* encoder failed or could not be run.
C19_ScratchCleanedUp ==
    \A c \in CamCalls :
        (ctk[c].op = "record_camera_clip" /\ ctk[c].pc = "done")
        => /\ ctk[c].res \in {"ok", "RecordTimeout"} => ctk[c].dir # "exists"
           /\ ctk[c].dir = "exists"
                 => ctk[c].res \in {"EncodingFailed", "EncodingUnavailable"}

\* C20: when the connection of a session is stopped because its last
\* consumer is gone, its record is no longer the one camera_instances holds
\* for the device, so that the next access creates a new one.
C20_StoppedSessionRemoved ==
    [][\A r \in DOMAIN sessions :
         (sessions[r].started /\ ~sessions'[r].started)
         => camera_instances'[sessions[r].did] # r]_vars

\* The calls that await start_async on a connection of device did.
Starting(did) ==
    {c \in CamCalls : ctk[c].pc = "start_wait" /\ sessions[ctk[c].st].did = did}

\* C21: however many callers need the session of a device started,
\* start_async is called once until the connection is stopped again, and by
\* one caller at a time; a caller that needed the session started registers
\* its callback only once "started" is set and no start is awaited; and no
\* start_async is called on a session whose "started" flag is set.
C21_StartsCollapse ==
    /\ [](\A did \in Cameras :
            /\ SumStarts(SessionsOf(did)) <= 1
            /\ Cardinality(Starting(did)) <= 1)
    /\ [][\A c \in CamCalls :
             (ctk[c].pc # "reg_wait" /\ ctk'[c].pc = "reg_wait" /\ ctk'[c].sin)
             => /\ sessions'[ctk'[c].st].started
                /\ \A u \in CamCalls :
                      ~(ctk'[u].pc = "start_wait" /\ ctk'[u].st = ctk'[c].st)]_vars
    /\ [][\A r \in DOMAIN conns :
             sessions[r].started => conns'[r].starts <= conns[r].starts]_vars

\* C22: a pin code bound to a session never changes; a call that supplies
\* a pin and is accepted (it returns a frame, a clip or "started") did not
\* supply a pin other than the one bound to the session of its device, so a
\* different pin is always refused (stated for the states in
\* which no session record of the device has been replaced); and a call
\* refused with PinMismatch has started and registered nothing and made no
\* buffer.
C22_PinSetOnce ==
    /\ [][\A r \in DOMAIN sessions :
             sessions[r].pin_code # 0 => sessions'[r].pin_code = sessions[r].pin_code]_vars
    /\ [][\A c \in CamCalls :
             (/\ InFlight(c)
              /\ ctk[c].pin # 0
              /\ ctk'[c].pc = "done"
              /\ ctk'[c].res \in {"ok", "started"}
              /\ NoneReplaced')
             => sessions'[camera_instances'[ctk[c].did]].pin_code \in {0, ctk[c].pin}]_vars
    /\ [][\A c \in CamCalls :
             (ctk[c].pc # "done" /\ ctk'[c].res = "PinMismatch")
             => /\ sessions' = sessions
                /\ conns' = conns
                /\ camera_cache' = camera_cache]_vars

\* What a call refused for its channel must show: it failed with
\* InvalidChannel iff the channel is outside [0, ChannelCount), and then no
\* session, connection or buffer was made or changed.
ChannelChecked(c, ch) ==
    /\ (ch \notin 0..(ChannelCount - 1)) <=> (ctk'[c].res = "InvalidChannel")
    /\ ctk'[c].res = "InvalidChannel"
          => /\ ctk'[c].pc = "done"
             /\ UNCHANGED <<camera_instances, sessions, conns, camera_cache, bufs>>

InLoops(c) ==
    /\ ctk[c].op = "start_all_camera_cache"
    /\ ctk[c].pc \in {"info_wait", "create_wait", "lock_wait", "start_wait", "reg_wait"}

\* C24: once start_all_camera_cache is in its loops it leaves them only
\* after the last camera: whatever fails for one camera becomes the entry
\* of that camera, and the call returns its results.
C24_BatchGoesOn ==
    [][\A c \in CamCalls :
         (InLoops(c) /\ ~ctk[c].auto /\ ctk'[c].pc = "done")
         => /\ ctk'[c].res = "started_all"
            /\ ctk[c].todo = <<>>
            /\ Len(ctk'[c].out) = Len(ctk[c].out) + 1]_vars

\* The auto-start task.
Auto == ctk[AutoTask]

\* C25: the auto-start task ends only with an attempt that has returned;
\* an attempt that raises, with the ToolError of the client guard or with
\* any other exception, is followed by a sleep of 5 seconds and another
\* attempt; an attempt begins only when the task starts or wakes from that
\* sleep; once the task has ended it stays ended; and when the token file
\* is there and its library calls stop raising, the task ends.
C25_AutoStartRetries ==
    /\ []((Auto.auto /\ Auto.pc = "done") => Auto.res = "started_all")
    /\ [](Auto.pc = "sleep" => (Auto.auto /\ Auto.slept = SleepSeconds))
    /\ [][/\ (Auto.auto /\ Auto.pc = "done") => Auto' = Auto
          /\ (Auto'.auto /\ Auto.pc # "list_wait" /\ Auto'.pc = "list_wait")
                => Auto.pc \in {"new", "sleep"}
          /\ (Auto.auto /\ Auto.pc = "sleep" /\ Auto'.pc # "sleep")
                => Auto'.pc = "list_wait"
          /\ (Auto.auto /\ Auto.pc \in {"list_wait", "start_wait", "reg_wait"}
                /\ Auto'.tries > Auto.tries)
                => Auto'.pc = "sleep"]_vars
    /\ []((Auto.auto /\ TokenExists(token_file)) => <>(Auto.pc = "done"))

\* The task has ended after an attempt that a library call broke and one
\* that went through: both cameras are cached.
C25_Witness ==
    /\ Auto.auto
    /\ Auto.pc = "done"
    /\ Auto.tries >= 1
    /\ Len(Auto.out) = Len(BatchCameras)
    /\ \A i \in 1..Len(Auto.out) : Auto.out[i].status = "started"

\* Channel ch of camera did has a cache callback registered.
Fed(did, ch) ==
    \E r \in DOMAIN conns : \E g \in conns[r].regs :
        sessions[r].did = did /\ g.ch = ch /\ g.kind = "cache"

\* C28: a buffer in camera_cache has a cache callback registered for it, so
\* none is left behind by a start_camera_cache that failed, and a
\* start_camera_cache that has returned "started" left a buffer that is fed.
C28_NoBufferLeftBehind ==
    /\ \A key \in DOMAIN camera_cache :
          camera_cache[key] # 0 => Fed(key[1], key[2])
    /\ \A c \in CamCalls :
          (ctk[c].op = "start_camera_cache" /\ ctk[c].pc = "done" /\ ctk[c].res = "started")
          => Fed(ctk[c].did, ctk[c].ch)

-----------------------------------------------------------------------------
(* The token file and the client guard                                     *)

\* Call t passes "async with auth_lock" in this step: the body of
\* _ensure_client runs up to its first await or to its end.
EntersGuard(t) ==
    /\ tk[t].pc \in {"new", "ec_lock"}
    /\ tk'[t].pc \notin {"new", "ec_lock"}

\* C26: a call that enters the guard while the token file does not exist
\* fails with AuthRequired and no client is constructed; a call that enters
\* it while the file exists has the file's content as its payload and is not
\* refused for a missing authorization; and when the call made before t
\* was refused and an /auth/callback has stored a token since, a call t
\* that _ensure_client returns to is handed the client of the server,
\* initialized.
C26_TokenFileGate ==
    [][\A t \in Calls :
          /\ (EntersGuard(t) /\ ~TokenExists(token_file)) =>
                /\ tk'[t].pc = "done"
                /\ tk'[t].res = "AuthRequired"
                /\ tk'[t].got = 0
                /\ hist'.nConstruct = hist.nConstruct
                /\ client' = client
          /\ (EntersGuard(t) /\ TokenExists(token_file)) =>
                /\ payload' = LoadTokenFile(token_file)
                /\ ~(tk'[t].pc = "done" /\ tk'[t].res = "AuthRequired")
          /\ (/\ tk[t].pc # "done"
              /\ tk'[t].pc = "done" /\ tk'[t].got # 0
              /\ hist.nCallbacks > 0
              /\ t > 1 /\ tk[t - 1].pc = "done" /\ tk[t - 1].res = "AuthRequired") =>
                /\ client'.id = tk'[t].got
                /\ client'.inited]_vars

\* C30: when _ensure_client returns the client to a call, both adapters
\* are those constructed for that client and are initialized, and the
\* assertion of _ensure_devices_mcp or _ensure_scenes_mcp does not fail.
C30_AdaptersReady ==
    [][\A t \in Calls :
          (tk[t].pc # "done" /\ tk'[t].pc = "done" /\ tk'[t].got # 0) =>
             /\ miot_devices_mcp' = [client |-> tk'[t].got, inited |-> TRUE]
             /\ miot_scenes_mcp' = [client |-> tk'[t].got, inited |-> TRUE]
             /\ tk'[t].res # "AssertionError"]_vars

-----------------------------------------------------------------------------
(* Stopping caches                                                         *)

\* _camera_cache holds no buffer under (did, ch).
NoBuffer(did, ch) ==
    \/ <<did, ch>> \notin DOMAIN camera_cache
    \/ camera_cache[<<did, ch>>] = 0

\* C27: stop_camera_cache for a (did, channel) that has no buffer returns
\* at once with the status not_running: it awaits no unregister and no
\* stop, and sessions, connections, buffers and every other call are as
\* they were.
C27_StopNotRunning ==
    [][\A c \in CamCalls, did \in DidInputs, ch \in ChannelInputs :
          (StopCameraCache(c, did, ch) /\ NoBuffer(did, ch)) =>
             /\ ctk'[c].pc = "done"
             /\ ctk'[c].res = "not_running"
             /\ UNCHANGED <<camera_instances, sessions, conns, camera_cache, bufs>>
             /\ \A u \in CamCalls \ {c} : ctk'[u] = ctk[u]]_vars

\* stop_camera_cache has answered not_running for a channel whose callback
\* is registered on a running connection: the registration is still there.
C27_Witness ==
    \E c \in CamCalls :
       /\ ctk[c].op = "stop_camera_cache"
       /\ ctk[c].pc = "done" /\ ctk[c].res = "not_running"
       /\ ctk[c].did \in Cameras /\ ctk[c].ch \in Channels
       /\ \E r \in DOMAIN conns :
             /\ camera_instances[ctk[c].did] = r
             /\ conns[r].running
             /\ \E g \in conns[r].regs : g.ch = ctk[c].ch

\* C29: when no call is in flight and _camera_cache holds no buffer, no
\* connection has a registered callback and no session has an active
\* channel.
C29_NoRegistrationLeaked ==
    (/\ \A c \in CamCalls : ctk[c].pc \in {"new", "done"}
     /\ \A key \in DOMAIN camera_cache : camera_cache[key] = 0)
    => \A r \in DOMAIN conns :
          /\ conns[r].regs = {}
          /\ sessions[r].channels = {}

-----------------------------------------------------------------------------
(* Credentials of the client                                               *)

\* C31: a client that _ensure_client returns to a call stems from the
\* authorization of the payload in memory and of the token file (if there
\* is one); and neither the payload nor the token file ever goes back from
\* an authorization to an earlier one (the first part stated for the
\* histories in which no init_async call has raised).
C31_CurrentCredentials ==
    [][/\ \A t \in Calls :
             (/\ tk[t].pc # "done" /\ tk'[t].pc = "done" /\ tk'[t].got # 0
              /\ ~hist'.initFailed) =>
                /\ client'.grant = payload'.grant
                /\ TokenExists(token_file') => client'.grant = token_file'.grant
       /\ (payload # NoPayload /\ payload' # NoPayload) =>
             payload'.grant >= payload.grant
       /\ (TokenExists(token_file) /\ TokenExists(token_file')) =>
             token_file'.grant >= token_file.grant]_vars

-----------------------------------------------------------------------------
(* Pin codes and failing starts                                            *)

\* start_camera_cache calls with and without pin codes, on a server whose
\* library calls may raise; no cache is stopped, so the "started" of a
\* session record is set iff a start_async of it has returned.
NextStart ==
    \/ \E c \in CamCalls, did \in Cameras, ch \in Channels, pin \in PinCodes :
          StartCameraCache(c, did, ch, pin, 1)
    \/ \E c \in CamCalls : CreateDone(c)
    \/ \E c \in CamCalls : LockAcquired(c)
    \/ \E c \in CamCalls : StartDone(c)
    \/ \E c \in CamCalls : StartFails(c)
    \/ \E c \in CamCalls : RegisterDone(c)
    \/ \E c \in CamCalls : RegisterFails(c)

SpecStart == InitPin /\ [][NextStart]_vars

\* C32: a start_camera_cache that is refused with PinMismatch, while no
\* start of the device's session is awaited or queued for, meets a session whose
\* connection has been started: a pin supplied to a start that failed
\* refuses nobody.
C32_PinBoundByStart ==
    [][\A c \in CamCalls, did \in Cameras, ch \in Channels, pin \in PinCodes :
          (/\ StartCameraCache(c, did, ch, pin, 1)
           /\ ctk'[c].res = "PinMismatch"
           /\ \A u \in CamCalls :
                 ~(/\ ctk[u].pc \in {"start_wait", "lock_wait"}
                   /\ ctk[u].st = camera_instances[did]))
          => sessions[camera_instances[did]].started]_vars

====
